---- MODULE Spec2Model ----
(***************************************************************************)
(* LunchBOT ledger: the SQLite store (users, debts, payments,              *)
(* processed_operations), the two database managers that work on it        *)
(* (bot/async_db.py, bot/db.py), the bot handlers that call them and the   *)
(* admin panel.  Every database statement a handler awaits is one step, so *)
(* handlers that run concurrently (aiogram tasks, telebot worker threads,  *)
(* the admin panel process) interleave between statements.                 *)
(***************************************************************************)
EXTENDS Integers, Sequences, FiniteSets, TLC

\* ---------------------------------------------------------------- bounds
MaxUsers    == 2
MaxDebts    == 2
MaxPayments == 2
MaxTasks    == 2
MaxTime     == 1         \* minutes the clock runs on after the start
MaxFrequency == 2        \* longest reminder cadence, in days

\* ------------------------------------------------------ program constants
MinutesWindow  == 5      \* check_duplicate_debt(minutes_window=5)
ExpiresMinutes == 5      \* record_processed_operation(expires_minutes=5)
MinutesPerDay  == 1440   \* the date part of a timestamp text changes every 1440 minutes

NULL   == 0 - 1          \* SQL NULL / Python None in an id or timestamp column
NoText == "<None>"       \* SQL NULL / Python None in a text column

\* the run starts one minute before midnight (UTC, the server's zone)
ClockStart == MinutesPerDay - 1

Users      == 1 .. MaxUsers
TaskIds    == 1 .. MaxTasks
DebtIds    == 1 .. MaxDebts
PaymentIds == 1 .. MaxPayments
Debtors    == {1}       \* who is chosen as debtor in the runs
Creditors  == {2}       \* who enters debts in the runs
Amounts    == {10}
Descriptions == {NoText, "lunch"}
Reasons    == {" ", "blurry"}

VARIABLES
    impl,                  \* which bot runs against the store: "async" | "sync"
    users,                 \* table users: set of user_id
    debts,                 \* table debts: id -> row
    payments,              \* table payments: id -> row
    processed_operations,  \* table processed_operations: set of rows, operation_hash unique
    nextDebtId,            \* next rowid of debts
    nextPaymentId,         \* next rowid of payments
    now,                   \* wall clock, minutes since the epoch
    fsm,                   \* per-user conversation state (FSMContext / user_states)
    tasks,                 \* handler invocations in flight: slot -> frame
    settings,              \* table settings: key -> value text
    jobs,                  \* the scheduler's job store: set of jobs (id, trigger, next_run_time)
    batch,                 \* the run of send_reminders in progress
    outbox                 \* debt id -> time of the latest reminder handed to Telegram

vars == <<impl, users, debts, payments, processed_operations,
          nextDebtId, nextPaymentId, now, fsm, tasks, settings, jobs, batch, outbox>>

\* the settings table and the scheduler with what it has sent
scheduler == <<settings, jobs, batch, outbox>>

store == <<users, debts, payments, processed_operations, nextDebtId, nextPaymentId>>

\* ------------------------------------------------------------ task frames
NoArgs == <<NULL, NULL, NULL, NoText>>

\* op: the handler; pc: its next statement; args: (debtor, creditor, amount,
\* description); seen: the status its SELECT read; ok / did / rid: what the
\* database call returned; base: the debts rowid counter when it was dispatched;
\* queue: the debt ids a "pay all" loop has still to go through
IdleTask ==
    [op |-> "idle", pc |-> "idle", user |-> NULL, pid |-> NULL, did |-> NULL,
     args |-> NoArgs, file |-> NoText, reason |-> NoText,
     ok |-> FALSE, rid |-> NULL, seen |-> "", base |-> NULL, queue |-> << >>]

NewTask(op, pc, user) == [IdleTask EXCEPT !.op = op, !.pc = pc, !.user = user]

SetTask(t, frame) == tasks' = [tasks EXCEPT ![t] = frame]

\* a finished handler's frame is dropped before anything else runs
Quiet == \A t \in TaskIds : tasks[t].pc # "done"

\* nothing is running: no handler frame and no reminder batch
Calm == batch.pc = "idle" /\ \A t \in TaskIds : tasks[t].pc = "idle"

At(t, pc) == Quiet /\ tasks[t].pc = pc

\* handlers are dispatched into the lowest free slot
FreeSlot(t) ==
    /\ Quiet
    /\ tasks[t].pc = "idle"
    /\ \A s \in TaskIds : s < t => tasks[s].pc # "idle"

\* ------------------------------------------------------ conversation state
NoSession ==
    [state |-> "none", debtor_id |-> NULL, amount |-> NULL, description |-> NoText,
     file_id |-> NoText, debt_id |-> NULL, debt_ids |-> << >>, payment_id |-> NULL]

\* ------------------------------------------------------------------- rows
\* column defaults of table debts (schema.sql): status 'Open', created_at the
\* time of the INSERT, no reminder sent, a reminder cooldown of one day
DebtDefaults ==
    [status |-> "Open", created_at |-> now, closed_at |-> NULL,
     last_reminder |-> NULL, reminder_frequency |-> 1]

\* column defaults of table payments (schema.sql): status 'Pending', created_at
\* the time of the INSERT
PaymentDefaults ==
    [status |-> "Pending", created_at |-> now, confirmed_at |-> NULL,
     cancelled_at |-> NULL, cancel_reason |-> NoText]

\* INSERT INTO debts (debtor_id, creditor_id, amount, description) VALUES (?, ?, ?, ?)
DebtRow(debtor, creditor, amount, description) ==
    [debtor_id |-> debtor, creditor_id |-> creditor, amount |-> amount,
     description |-> description] @@ DebtDefaults

\* INSERT INTO payments (debt_id, debtor_id, creditor_id, file_id) VALUES (?, ?, ?, ?)
PaymentRow(debt, debtor, creditor, file) ==
    [debt_id |-> debt, debtor_id |-> debtor, creditor_id |-> creditor, file_id |-> file]
    @@ PaymentDefaults

\* ----------------------------------------------------- settings and jobs
\* int(text), NULL when it raises ValueError
ParseInt(text) ==
    CASE text = "1" -> 1
      [] text = "2" -> 2
      [] text = "3" -> 3
      [] OTHER -> NULL

\* hour, minute = map(int, reminder_time.split(':')) as the minute of the day,
\* NULL when the text does not split into two integers
ParseTime(text) ==
    CASE text = "00:00" -> 0
      [] text = "00:01" -> 1
      [] text = "17:30" -> 17 * 60 + 30
      [] text = "23:59" -> 23 * 60 + 59
      [] OTHER -> NULL

\* CronTrigger(hour, minute) or CronTrigger(hour, minute, day='*/N')
CronTrigger(minute_of_day, day_step) == [minute |-> minute_of_day, day |-> day_step]

\* the trigger fires at time t: at minute 0 seconds of hour:minute, on every
\* day_step-th day
Fires(trigger, t) ==
    /\ t % MinutesPerDay = trigger.minute
    /\ (t \div MinutesPerDay) % trigger.day = 0

\* trigger.get_next_fire_time: the first fire time from t on
NextFireTime(trigger, t) ==
    LET later == {(t \div MinutesPerDay + k) * MinutesPerDay + trigger.minute :
                     k \in 0..MaxFrequency}
        fire  == {n \in later : n >= t /\ Fires(trigger, n)} IN
      CHOOSE n \in fire : \A m \in fire : n <= m

Job(id, trigger, next_run_time) ==
    [id |-> id, trigger |-> trigger, next_run_time |-> next_run_time]

\* scheduler.add_job(..., id=id, replace_existing): the job stored under id is
\* replaced; its first run is the trigger's next fire time after the current second
add_job(id, trigger, replace_existing) ==
    (IF replace_existing THEN {j \in jobs : j.id # id} ELSE jobs)
    \cup {Job(id, trigger, NextFireTime(trigger, now + 1))}

\* a run of send_reminders: the list it read, the debts it has tried to notify
\* of, those whose message was sent and those it has stamped, each in order
NoBatch ==
    [pc |-> "idle", queue |-> << >>, attempted |-> << >>, sent |-> << >>, marked |-> << >>]

\* run_all.py stores reminder_frequency '1' and a reminder_time when they are
\* missing; the bot then registers the job, whose first run is due at the start
InitScheduler ==
    /\ settings = [reminder_frequency |-> "1", reminder_time |-> "23:59"]
    /\ jobs = {Job("debt_reminders", CronTrigger(ParseTime("23:59"), 1), ClockStart)}
    /\ batch = NoBatch
    /\ outbox = [d \in DebtIds |-> NULL]

Init ==
    /\ impl \in {"async", "sync"}
    /\ users = Users
    /\ debts = << >>
    /\ payments = << >>
    /\ processed_operations = {}
    /\ nextDebtId = 1
    /\ nextPaymentId = 1
    /\ now = ClockStart
    /\ fsm = [u \in Users |-> NoSession]
    /\ tasks = [t \in TaskIds |-> IdleTask]
    /\ InitScheduler

\* ------------------------------------------------------- timestamp texts
\* a timestamp text as SQLite compares it: date, the separator's character
\* code, time of day.  The created_at default (schema.sql) is taken to be
\* CURRENT_TIMESTAMP, as in the tables bot/db.py creates: "YYYY-MM-DD HH:MM:SS"
CURRENT_TIMESTAMP(t) == <<t \div MinutesPerDay, 32, t % MinutesPerDay>>

\* datetime.isoformat() gives "YYYY-MM-DDTHH:MM:SS.ffffff"
isoformat(t) == <<t \div MinutesPerDay, 84, t % MinutesPerDay>>

\* SQLite's text comparison a >= b (BINARY collation)
TextGE(a, b) ==
    \/ a[1] > b[1]
    \/ a[1] = b[1] /\ a[2] > b[2]
    \/ a[1] = b[1] /\ a[2] = b[2] /\ a[3] >= b[3]

\* ------------------------------------------------ queries (both managers)
HasPayment(pid) == pid \in DOMAIN payments

\* get_debt: debts JOIN users u1 ON debtor JOIN users u2 ON creditor WHERE d.id = ?
get_debt(did) ==
    /\ did \in DOMAIN debts
    /\ debts[did].debtor_id \in users
    /\ debts[did].creditor_id \in users

\* SQL "description = ? OR (description IS NULL AND ? IS NULL)"
DescriptionMatches(stored, given) ==
    \/ stored # NoText /\ given # NoText /\ stored = given
    \/ stored = NoText /\ given = NoText

SameDebt(d, args) ==
    /\ debts[d].debtor_id = args[1]
    /\ debts[d].creditor_id = args[2]
    /\ debts[d].amount = args[3]
    /\ DescriptionMatches(debts[d].description, args[4])

\* rows an "ORDER BY created_at DESC LIMIT 1" may return out of a set of ids
Latest(table, ids) ==
    {i \in ids : \A j \in ids : table[j].created_at <= table[i].created_at}

\* async check_duplicate_debt: cutoff_time = now() - 5 min;
\* WHERE ... AND created_at >= cutoff_time.isoformat() AND status = 'Open'
check_duplicate_debt(args) ==
    Latest(debts,
        {d \in DOMAIN debts :
            /\ SameDebt(d, args)
            /\ TextGE(CURRENT_TIMESTAMP(debts[d].created_at), isoformat(now - MinutesWindow))
            /\ debts[d].status = "Open"})

\* check_duplicate_payment: WHERE debt_id = ? AND debtor_id = ? AND status IN ('Pending','Confirmed')
check_duplicate_payment(debt, debtor) ==
    Latest(payments,
        {p \in DOMAIN payments :
            /\ payments[p].debt_id = debt
            /\ payments[p].debtor_id = debtor
            /\ payments[p].status \in {"Pending", "Confirmed"}})

\* ------------------------------------------------- handler dispatch helpers
\* frames that are going to insert a row, used to keep the rowid counters
\* inside the bounds
DebtInsertPcs == {"debt_dup", "debt_insert", "s_debt_dup", "s_debt_op", "s_debt_insert"}
PaymentInsertPcs ==
    {"payment_dup", "payment_insert", "s_payment_dup", "s_payment_op", "s_payment_insert"}

DebtInserters == {t \in TaskIds : tasks[t].pc \in DebtInsertPcs}
PaymentInserters ==
    {t \in TaskIds : tasks[t].pc \in PaymentInsertPcs
                     \/ (tasks[t].pc \in DebtInsertPcs /\ tasks[t].file # NoText)}

RoomForDebt    == nextDebtId + Cardinality(DebtInserters) <= MaxDebts
RoomForPayment == nextPaymentId + Cardinality(PaymentInserters) <= MaxPayments

\* where a handler goes on after db.create_debt returned debt id `id`
AfterCreateDebt(frame, id) ==
    IF frame.op = "create_debt_final"
    THEN IF id = NULL THEN [frame EXCEPT !.did = id, !.pc = "state_clear"]
         ELSE IF frame.file # NoText THEN [frame EXCEPT !.did = id, !.ok = TRUE, !.pc = "payment_dup"]
         ELSE [frame EXCEPT !.did = id, !.ok = TRUE, !.pc = "state_clear"]
    ELSE [frame EXCEPT !.did = id, !.ok = (id # NULL), !.pc = "done"]

\* where a handler goes on after db.create_payment returned payment id `id`
AfterCreatePayment(frame, id) ==
    IF frame.queue = << >>
    THEN [frame EXCEPT !.rid = id, !.ok = (id # NULL), !.pc = "state_clear"]
    ELSE [frame EXCEPT !.rid = id, !.ok = (id # NULL), !.pc = "pay_all_next"]

\* ------------------------------------------------ AsyncDatabaseManager steps
\* create_debt, first statement: the duplicate lookup
create_debt_check(t) ==
    /\ At(t, "debt_dup")
    /\ LET found == check_duplicate_debt(tasks[t].args) IN
         IF found # {}
         THEN \E id \in found : SetTask(t, AfterCreateDebt(tasks[t], id))
         ELSE SetTask(t, [tasks[t] EXCEPT !.pc = "debt_insert"])
    /\ UNCHANGED <<impl, scheduler, store, now, fsm>>

\* create_debt, second statement: INSERT INTO debts ...; commit; lastrowid
create_debt_insert(t) ==
    /\ At(t, "debt_insert")
    /\ debts' = [d \in DOMAIN debts \cup {nextDebtId} |->
                   IF d = nextDebtId
                   THEN DebtRow(tasks[t].args[1], tasks[t].args[2], tasks[t].args[3], tasks[t].args[4])
                   ELSE debts[d]]
    /\ nextDebtId' = nextDebtId + 1
    /\ SetTask(t, AfterCreateDebt(tasks[t], nextDebtId))
    /\ UNCHANGED <<impl, scheduler, users, payments, processed_operations, nextPaymentId, now, fsm>>

\* create_payment, first statement: the duplicate lookup
create_payment_check(t) ==
    /\ At(t, "payment_dup")
    /\ LET found == check_duplicate_payment(tasks[t].did, tasks[t].args[1]) IN
         IF found # {}
         THEN \E id \in found : SetTask(t, AfterCreatePayment(tasks[t], id))
         ELSE SetTask(t, [tasks[t] EXCEPT !.pc = "payment_insert"])
    /\ UNCHANGED <<impl, scheduler, store, now, fsm>>

\* create_payment, second statement: INSERT INTO payments ...; commit; lastrowid
create_payment_insert(t) ==
    /\ At(t, "payment_insert")
    /\ payments' = [p \in DOMAIN payments \cup {nextPaymentId} |->
                      IF p = nextPaymentId
                      THEN PaymentRow(tasks[t].did, tasks[t].args[1], tasks[t].args[2], tasks[t].file)
                      ELSE payments[p]]
    /\ nextPaymentId' = nextPaymentId + 1
    /\ SetTask(t, AfterCreatePayment(tasks[t], nextPaymentId))
    /\ UNCHANGED <<impl, scheduler, users, debts, processed_operations, nextDebtId, now, fsm>>

\* confirm_payment, first statement: SELECT status FROM payments WHERE id = ?
confirm_payment_select(t) ==
    /\ At(t, "confirm_select")
    /\ IF ~HasPayment(tasks[t].pid)
       THEN SetTask(t, [tasks[t] EXCEPT !.seen = "missing", !.ok = FALSE, !.pc = "done"])
       ELSE IF payments[tasks[t].pid].status = "Confirmed"
       THEN SetTask(t, [tasks[t] EXCEPT !.seen = "Confirmed", !.ok = TRUE, !.pc = "close_debt"])
       ELSE SetTask(t, [tasks[t] EXCEPT !.seen = payments[tasks[t].pid].status,
                                        !.pc = "confirm_update"])
    /\ UNCHANGED <<impl, scheduler, store, now, fsm>>

\* confirm_payment, second statement:
\* UPDATE payments SET status = 'Confirmed', confirmed_at = ? WHERE id = ?; return True
confirm_payment_update(t) ==
    /\ At(t, "confirm_update")
    /\ LET pid == tasks[t].pid IN
         payments' = IF HasPayment(pid)
                     THEN [payments EXCEPT ![pid].status = "Confirmed",
                                           ![pid].confirmed_at = now]
                     ELSE payments
    /\ SetTask(t, [tasks[t] EXCEPT !.ok = TRUE, !.pc = "close_debt"])
    /\ UNCHANGED <<impl, scheduler, users, debts, processed_operations, nextDebtId, nextPaymentId, now, fsm>>

\* close_debt: UPDATE debts SET status = 'Closed', closed_at = ? WHERE id = ?
close_debt(t) ==
    /\ At(t, "close_debt")
    /\ LET did == tasks[t].did IN
         debts' = IF did \in DOMAIN debts
                  THEN [debts EXCEPT ![did].status = "Closed", ![did].closed_at = now]
                  ELSE debts
    /\ SetTask(t, [tasks[t] EXCEPT !.pc = "done"])
    /\ UNCHANGED <<impl, scheduler, users, payments, processed_operations, nextDebtId, nextPaymentId, now, fsm>>

\* cancel_payment, first statement: SELECT status FROM payments WHERE id = ?
cancel_payment_select(t) ==
    /\ At(t, "cancel_select")
    /\ IF ~HasPayment(tasks[t].pid)
       THEN SetTask(t, [tasks[t] EXCEPT !.seen = "missing", !.ok = FALSE, !.pc = "state_clear"])
       ELSE IF payments[tasks[t].pid].status = "Cancelled"
       THEN SetTask(t, [tasks[t] EXCEPT !.seen = "Cancelled", !.ok = TRUE, !.pc = "state_clear"])
       ELSE SetTask(t, [tasks[t] EXCEPT !.seen = payments[tasks[t].pid].status,
                                        !.pc = "cancel_update"])
    /\ UNCHANGED <<impl, scheduler, store, now, fsm>>

\* cancel_payment, second statement:
\* UPDATE payments SET status = 'Cancelled', cancelled_at = ?, cancel_reason = ? WHERE id = ?
cancel_payment_update(t) ==
    /\ At(t, "cancel_update")
    /\ LET pid == tasks[t].pid IN
         payments' = IF HasPayment(pid)
                     THEN [payments EXCEPT ![pid].status = "Cancelled",
                                           ![pid].cancelled_at = now,
                                           ![pid].cancel_reason = tasks[t].reason]
                     ELSE payments
    /\ SetTask(t, [tasks[t] EXCEPT !.ok = TRUE, !.pc = "state_clear"])
    /\ UNCHANGED <<impl, scheduler, users, debts, processed_operations, nextDebtId, nextPaymentId, now, fsm>>

\* the handler's last statement: await state.clear() / user_states.pop(user_id)
state_clear(t) ==
    /\ At(t, "state_clear")
    /\ fsm' = [fsm EXCEPT ![tasks[t].user] = NoSession]
    /\ SetTask(t, [tasks[t] EXCEPT !.pc = "done"])
    /\ UNCHANGED <<impl, scheduler, store, now>>

\* the handler ends and its frame is dropped
Return(t) ==
    /\ tasks[t].pc = "done"
    /\ SetTask(t, IdleTask)
    /\ UNCHANGED <<impl, scheduler, store, now, fsm>>

\* ------------------------------------------------- bot/async_handlers.py
\* float('nan'): equal to nothing, neither below nor above any number
NaN == 0 - 2

\* float(message.text.replace(',', '.')), NULL when it raises ValueError
ParseAmount(text) ==
    CASE text = "10"  -> 10
      [] text = "0"   -> 0
      [] text = "-5"  -> 0 - 5
      [] text = "nan" -> NaN
      [] OTHER        -> NULL

\* Python's amount <= 0, which is False for nan
NotAboveZero(amount) == amount # NaN /\ amount <= 0

AmountTexts == {"10", "0", "abc"}

\* message.text.strip()
Strip(text) == IF text = " " THEN "" ELSE text

\* callback cmd_new_debt / command /new_debt
handle_cmd_new_debt(u) ==
    /\ Quiet
    /\ impl = "async"
    /\ u \in users
    /\ users \ {u} # {}
    /\ fsm' = [fsm EXCEPT ![u] = [NoSession EXCEPT !.state = "selecting_debtor"]]
    /\ UNCHANGED <<impl, scheduler, store, now, tasks>>

\* callback select_user_<id>
handle_user_selection(u, target) ==
    /\ Quiet
    /\ impl = "async"
    /\ u \in users
    /\ target \in users
    /\ fsm' = [fsm EXCEPT ![u].debtor_id = target, ![u].state = "entering_amount"]
    /\ UNCHANGED <<impl, scheduler, store, now, tasks>>

\* message in state entering_amount
handle_amount_input(u, text) ==
    /\ Quiet
    /\ impl = "async"
    /\ fsm[u].state = "entering_amount"
    /\ ParseAmount(text) # NULL
    /\ ~NotAboveZero(ParseAmount(text))
    /\ fsm' = [fsm EXCEPT ![u].amount = ParseAmount(text), ![u].state = "entering_description"]
    /\ UNCHANGED <<impl, scheduler, store, now, tasks>>

\* message in state entering_description
handle_description_input(u, text) ==
    /\ Quiet
    /\ impl = "async"
    /\ fsm[u].state = "entering_description"
    /\ fsm' = [fsm EXCEPT ![u].description = IF text = "-" THEN NoText ELSE text,
                          ![u].state = "uploading_receipt"]
    /\ UNCHANGED <<impl, scheduler, store, now, tasks>>

\* create_debt_final up to its first database statement
create_debt_final(t, u, file) ==
    /\ FreeSlot(t)
    /\ RoomForDebt
    /\ file # NoText => RoomForPayment
    /\ SetTask(t, [NewTask("create_debt_final", "debt_dup", u) EXCEPT
                      !.args = <<fsm[u].debtor_id, u, fsm[u].amount, fsm[u].description>>,
                      !.file = file, !.base = nextDebtId])

\* photo or document in state uploading_receipt
handle_receipt_upload(t, u) ==
    /\ impl = "async"
    /\ fsm[u].state = "uploading_receipt"
    /\ create_debt_final(t, u, "file")
    /\ fsm' = [fsm EXCEPT ![u].file_id = "file"]
    /\ UNCHANGED <<impl, scheduler, store, now>>

\* callback skip_receipt
handle_skip_receipt(t, u) ==
    /\ impl = "async"
    /\ fsm[u].debtor_id # NULL
    /\ fsm[u].amount # NULL
    /\ create_debt_final(t, u, fsm[u].file_id)
    /\ UNCHANGED <<impl, scheduler, store, now, fsm>>

\* callback pay_debt_<id>
handle_pay_debt(u, did) ==
    /\ Quiet
    /\ impl = "async"
    /\ get_debt(did)
    /\ debts[did].debtor_id = u
    /\ fsm' = [fsm EXCEPT ![u] = [NoSession EXCEPT !.debt_id = did,
                                                  !.state = "pay_uploading_receipt"]]
    /\ UNCHANGED <<impl, scheduler, store, now, tasks>>

\* photo or document in state PayDebtStates.uploading_receipt:
\* process_payment_receipt up to db.create_payment
process_payment_receipt(t, u) ==
    /\ impl = "async"
    /\ fsm[u].state = "pay_uploading_receipt"
    /\ fsm[u].debt_id # NULL
    /\ FreeSlot(t)
    /\ LET did == fsm[u].debt_id IN
         IF ~get_debt(did)
         THEN SetTask(t, [NewTask("process_payment_receipt", "state_clear", u) EXCEPT !.did = did])
         ELSE /\ RoomForPayment
              /\ SetTask(t, [NewTask("process_payment_receipt", "payment_dup", u) EXCEPT
                                !.did = did, !.file = "file",
                                !.args = <<u, debts[did].creditor_id,
                                           debts[did].amount, debts[did].description>>])
    /\ UNCHANGED <<impl, scheduler, store, now, fsm>>

\* handle_confirm_payment with the test of payment['creditor_id'] left out
handle_confirm_payment_unchecked(t, u, pid) ==
    /\ impl = "async"
    /\ FreeSlot(t)
    /\ HasPayment(pid)
    /\ SetTask(t, [NewTask("handle_confirm_payment", "confirm_select", u) EXCEPT
                      !.pid = pid, !.did = payments[pid].debt_id])
    /\ UNCHANGED <<impl, scheduler, store, now, fsm>>

\* callback confirm_payment_<id>: get_payment and the creditor check
handle_confirm_payment(t, u, pid) ==
    /\ impl = "async"
    /\ FreeSlot(t)
    /\ HasPayment(pid)
    /\ payments[pid].creditor_id = u
    /\ SetTask(t, [NewTask("handle_confirm_payment", "confirm_select", u) EXCEPT
                      !.pid = pid, !.did = payments[pid].debt_id])
    /\ UNCHANGED <<impl, scheduler, store, now, fsm>>

\* callback cancel_payment_<id> without the state.clear() before update_data
handle_cancel_payment_keeping_data(u, pid) ==
    /\ Quiet
    /\ impl = "async"
    /\ HasPayment(pid)
    /\ payments[pid].creditor_id = u
    /\ fsm' = [fsm EXCEPT ![u].payment_id = pid, ![u].state = "entering_cancel_reason"]
    /\ UNCHANGED <<impl, scheduler, store, now, tasks>>

\* callback cancel_payment_<id>
handle_cancel_payment(u, pid) ==
    /\ Quiet
    /\ impl = "async"
    /\ HasPayment(pid)
    /\ payments[pid].creditor_id = u
    /\ fsm' = [fsm EXCEPT ![u] = [NoSession EXCEPT !.payment_id = pid,
                                                  !.state = "entering_cancel_reason"]]
    /\ UNCHANGED <<impl, scheduler, store, now, tasks>>

\* handle_cancel_reason_input with the "if not reason" test left out
handle_cancel_reason_input_unvalidated(t, u, text) ==
    /\ impl = "async"
    /\ fsm[u].state = "entering_cancel_reason"
    /\ FreeSlot(t)
    /\ LET pid == fsm[u].payment_id IN
         IF ~HasPayment(pid)
         THEN SetTask(t, [NewTask("handle_cancel_reason_input", "state_clear", u) EXCEPT
                             !.pid = pid, !.seen = "missing"])
         ELSE SetTask(t, [NewTask("handle_cancel_reason_input", "cancel_select", u) EXCEPT
                             !.pid = pid, !.did = payments[pid].debt_id,
                             !.reason = Strip(text)])
    /\ UNCHANGED <<impl, scheduler, store, now, fsm>>

\* message in state entering_cancel_reason, up to db.cancel_payment
handle_cancel_reason_input(t, u, text) ==
    /\ impl = "async"
    /\ fsm[u].state = "entering_cancel_reason"
    /\ Strip(text) # ""
    /\ FreeSlot(t)
    /\ LET pid == fsm[u].payment_id IN
         IF ~HasPayment(pid)
         THEN SetTask(t, [NewTask("handle_cancel_reason_input", "state_clear", u) EXCEPT
                             !.pid = pid, !.seen = "missing"])
         ELSE SetTask(t, [NewTask("handle_cancel_reason_input", "cancel_select", u) EXCEPT
                             !.pid = pid, !.did = payments[pid].debt_id,
                             !.reason = Strip(text)])
    /\ UNCHANGED <<impl, scheduler, store, now, fsm>>

\* callback cancel with state.set_state(None) in place of state.clear()
handle_cancel_keeping_data(u) ==
    /\ Quiet
    /\ impl = "async"
    /\ fsm[u].state \notin {"none", "entering_cancel_reason"}
    /\ fsm' = [fsm EXCEPT ![u].state = "none"]
    /\ UNCHANGED <<impl, scheduler, store, now, tasks>>

\* callback cancel
handle_cancel(u) ==
    /\ Quiet
    /\ impl = "async"
    /\ fsm[u].state \notin {"none", "entering_cancel_reason"}
    /\ fsm' = [fsm EXCEPT ![u] = NoSession]
    /\ UNCHANGED <<impl, scheduler, store, now, tasks>>

\* ------------------------------------------------- admin_panel/app.py
\* "create debt" form: db.create_debt(debtor_id, creditor_id, amount, description)
admin_create_debt(t, debtor, creditor, amount, description) ==
    /\ FreeSlot(t)
    /\ RoomForDebt
    /\ debtor \in users /\ creditor \in users
    /\ debtor # creditor
    /\ SetTask(t, [NewTask("create_debt", "debt_dup", NULL) EXCEPT
                      !.args = <<debtor, creditor, amount, description>>,
                      !.base = nextDebtId])
    /\ UNCHANGED <<impl, scheduler, store, now, fsm>>

\* "close debt" button of a listed (open) debt: db.close_debt(debt['id'])
admin_close_debt(t, did) ==
    /\ FreeSlot(t)
    /\ get_debt(did)
    /\ debts[did].status = "Open"
    /\ SetTask(t, [NewTask("admin_close_debt", "close_debt", NULL) EXCEPT !.did = did, !.ok = TRUE])
    /\ UNCHANGED <<impl, scheduler, store, now, fsm>>

\* AsyncDatabaseManager.delete_user_cascade: four DELETEs and one commit
delete_user_cascade(u) ==
    /\ Quiet
    /\ u \in users
    /\ LET keptDebts == {d \in DOMAIN debts :
                            debts[d].debtor_id # u /\ debts[d].creditor_id # u}
           keptPayments == {p \in DOMAIN payments :
                            payments[p].debtor_id # u /\ payments[p].creditor_id # u} IN
         /\ debts' = [d \in keptDebts |-> debts[d]]
         /\ payments' = [p \in keptPayments |-> payments[p]]
    /\ processed_operations' = {r \in processed_operations : r.user_id # u}
    /\ users' = users \ {u}
    /\ UNCHANGED <<impl, scheduler, nextDebtId, nextPaymentId, now, fsm, tasks>>

\* ------------------------------------------------- DatabaseManager (bot/db.py)
\* the dictionary keys that are hashed, in the order of Python's string comparison
KeyOrder ==
    <<"amount", "creditor_id", "debt_id", "debtor_id", "description",
      "operation_type", "payment_id", "user_id">>

\* json.dumps(obj, sort_keys): the items of the dict obj (a sequence of (key, value)
\* pairs in insertion order) are written in insertion order, or in key order
\* when sort_keys is set
json_dumps(obj, sort_keys) ==
    IF sort_keys
    THEN LET present == SelectSeq(KeyOrder, LAMBDA k : \E i \in DOMAIN obj : obj[i][1] = k) IN
           [n \in DOMAIN present |->
               obj[CHOOSE i \in DOMAIN obj : obj[i][1] = present[n]]]
    ELSE obj

\* hashlib.sha256(text).hexdigest(): the digest is represented by the hashed text
sha256(text) == text

\* the function without sort_keys: the items are hashed in the order of the call
create_operation_hash_in_call_order(operation_type, user_id, kwargs) ==
    sha256(json_dumps(<<<<"operation_type", operation_type>>, <<"user_id", user_id>>>> \o kwargs,
                      FALSE))

\* create_operation_hash(operation_type, user_id, **kwargs), kwargs in the order of the call:
\* hash_data = {'operation_type': ..., 'user_id': ..., **kwargs};
\* sha256(json.dumps(hash_data, sort_keys=True))
create_operation_hash(operation_type, user_id, kwargs) ==
    sha256(json_dumps(<<<<"operation_type", operation_type>>, <<"user_id", user_id>>>> \o kwargs,
                      TRUE))

\* check_operation_processed:
\* WHERE operation_hash = ? AND (expires_at IS NULL OR datetime(expires_at) > datetime('now'))
check_operation_processed(operation_hash) ==
    {r \in processed_operations :
        /\ r.operation_hash = operation_hash
        /\ (r.expires_at = NULL \/ r.expires_at > now)}

\* record_processed_operation: expires_at = now() + 5 min; INSERT OR REPLACE INTO processed_operations
\* (operation_hash, operation_type, user_id, operation_data, result_id, expires_at)
record_processed_operation(operation_hash, operation_type, user_id, operation_data, result_id) ==
    {r \in processed_operations : r.operation_hash # operation_hash}
    \cup {[operation_hash |-> operation_hash, operation_type |-> operation_type,
           user_id |-> user_id, operation_data |-> operation_data, result_id |-> result_id,
           expires_at |-> now + ExpiresMinutes]}

\* sync check_duplicate_debt:
\* WHERE ... AND datetime(created_at) > datetime('now', '-5 minutes') AND status = 'Open'
sync_check_duplicate_debt(args) ==
    Latest(debts,
        {d \in DOMAIN debts :
            /\ SameDebt(d, args)
            /\ debts[d].created_at > now - MinutesWindow
            /\ debts[d].status = "Open"})

DebtCreationHash(args) ==
    create_operation_hash("debt_creation", args[2],
        << <<"debtor_id", args[1]>>, <<"amount", args[3]>>, <<"description", args[4]>> >>)

PaymentCreationHash(debt, debtor, creditor) ==
    create_operation_hash("payment_creation", debtor,
        << <<"debt_id", debt>>, <<"creditor_id", creditor>> >>)

PaymentConfirmationHash(creditor, pid) ==
    create_operation_hash("payment_confirmation", creditor, << <<"payment_id", pid>> >>)

\* create_debt: check_duplicate_debt
sync_create_debt_check(t) ==
    /\ At(t, "s_debt_dup")
    /\ LET found == sync_check_duplicate_debt(tasks[t].args) IN
         IF found # {}
         THEN \E id \in found : SetTask(t, AfterCreateDebt(tasks[t], id))
         ELSE SetTask(t, [tasks[t] EXCEPT !.pc = "s_debt_op"])
    /\ UNCHANGED <<impl, scheduler, store, now, fsm>>

\* create_debt: check_operation_processed(operation_hash), return its result_id
sync_create_debt_processed(t) ==
    /\ At(t, "s_debt_op")
    /\ LET processed == check_operation_processed(DebtCreationHash(tasks[t].args)) IN
         IF processed # {}
         THEN \E r \in processed : SetTask(t, AfterCreateDebt(tasks[t], r.result_id))
         ELSE SetTask(t, [tasks[t] EXCEPT !.pc = "s_debt_insert"])
    /\ UNCHANGED <<impl, scheduler, store, now, fsm>>

\* create_debt: INSERT INTO debts ...; debt_id = cursor.lastrowid; conn.commit()
sync_create_debt_insert(t) ==
    /\ At(t, "s_debt_insert")
    /\ debts' = [d \in DOMAIN debts \cup {nextDebtId} |->
                   IF d = nextDebtId
                   THEN DebtRow(tasks[t].args[1], tasks[t].args[2], tasks[t].args[3], tasks[t].args[4])
                   ELSE debts[d]]
    /\ nextDebtId' = nextDebtId + 1
    /\ SetTask(t, [tasks[t] EXCEPT !.did = nextDebtId, !.pc = "s_debt_record"])
    /\ UNCHANGED <<impl, scheduler, users, payments, processed_operations, nextPaymentId, now, fsm>>

\* create_debt: record_processed_operation(...); return debt_id
sync_create_debt_record(t) ==
    /\ At(t, "s_debt_record")
    /\ processed_operations' =
          record_processed_operation(DebtCreationHash(tasks[t].args), "debt_creation",
                                     tasks[t].args[2],
                                     [debtor_id |-> tasks[t].args[1], amount |-> tasks[t].args[3],
                                      description |-> tasks[t].args[4]],
                                     tasks[t].did)
    /\ SetTask(t, AfterCreateDebt(tasks[t], tasks[t].did))
    /\ UNCHANGED <<impl, scheduler, users, debts, payments, nextDebtId, nextPaymentId, now, fsm>>

\* create_payment: check_duplicate_payment
sync_create_payment_check(t) ==
    /\ At(t, "s_payment_dup")
    /\ LET found == check_duplicate_payment(tasks[t].did, tasks[t].args[1]) IN
         IF found # {}
         THEN \E id \in found : SetTask(t, AfterCreatePayment(tasks[t], id))
         ELSE SetTask(t, [tasks[t] EXCEPT !.pc = "s_payment_op"])
    /\ UNCHANGED <<impl, scheduler, store, now, fsm>>

\* create_payment: check_operation_processed(operation_hash), return its result_id
sync_create_payment_processed(t) ==
    /\ At(t, "s_payment_op")
    /\ LET processed == check_operation_processed(
                            PaymentCreationHash(tasks[t].did, tasks[t].args[1], tasks[t].args[2])) IN
         IF processed # {}
         THEN \E r \in processed : SetTask(t, AfterCreatePayment(tasks[t], r.result_id))
         ELSE SetTask(t, [tasks[t] EXCEPT !.pc = "s_payment_insert"])
    /\ UNCHANGED <<impl, scheduler, store, now, fsm>>

\* create_payment: INSERT INTO payments ...; payment_id = cursor.lastrowid; conn.commit()
sync_create_payment_insert(t) ==
    /\ At(t, "s_payment_insert")
    /\ payments' = [p \in DOMAIN payments \cup {nextPaymentId} |->
                      IF p = nextPaymentId
                      THEN PaymentRow(tasks[t].did, tasks[t].args[1], tasks[t].args[2], tasks[t].file)
                      ELSE payments[p]]
    /\ nextPaymentId' = nextPaymentId + 1
    /\ SetTask(t, [tasks[t] EXCEPT !.rid = nextPaymentId, !.pc = "s_payment_record"])
    /\ UNCHANGED <<impl, scheduler, users, debts, processed_operations, nextDebtId, now, fsm>>

\* create_payment: record_processed_operation(...); return payment_id
sync_create_payment_record(t) ==
    /\ At(t, "s_payment_record")
    /\ processed_operations' =
          record_processed_operation(
              PaymentCreationHash(tasks[t].did, tasks[t].args[1], tasks[t].args[2]),
              "payment_creation", tasks[t].args[1],
              [debt_id |-> tasks[t].did, creditor_id |-> tasks[t].args[2]], tasks[t].rid)
    /\ SetTask(t, AfterCreatePayment(tasks[t], tasks[t].rid))
    /\ UNCHANGED <<impl, scheduler, users, debts, payments, nextDebtId, nextPaymentId, now, fsm>>

\* confirm_payment: payment = self.get_payment(payment_id) and the 'Confirmed' test
sync_confirm_payment_get(t) ==
    /\ At(t, "s_confirm_get")
    /\ IF ~HasPayment(tasks[t].pid)
       THEN SetTask(t, [tasks[t] EXCEPT !.seen = "missing", !.ok = FALSE, !.pc = "done"])
       ELSE IF payments[tasks[t].pid].status = "Confirmed"
       THEN SetTask(t, [tasks[t] EXCEPT !.seen = "Confirmed", !.ok = TRUE, !.pc = "close_debt"])
       ELSE SetTask(t, [tasks[t] EXCEPT !.seen = payments[tasks[t].pid].status,
                                        !.pc = "s_confirm_op"])
    /\ UNCHANGED <<impl, scheduler, store, now, fsm>>

\* confirm_payment: check_operation_processed(operation_hash), return True
sync_confirm_payment_processed(t) ==
    /\ At(t, "s_confirm_op")
    /\ IF check_operation_processed(PaymentConfirmationHash(tasks[t].user, tasks[t].pid)) # {}
       THEN SetTask(t, [tasks[t] EXCEPT !.ok = TRUE, !.pc = "close_debt"])
       ELSE SetTask(t, [tasks[t] EXCEPT !.pc = "s_confirm_update"])
    /\ UNCHANGED <<impl, scheduler, store, now, fsm>>

\* confirm_payment:
\* UPDATE payments SET status = 'Confirmed', confirmed_at = ? WHERE id = ? AND status = 'Pending';
\* return False when no row was updated
sync_confirm_payment_update(t) ==
    /\ At(t, "s_confirm_update")
    /\ LET pid == tasks[t].pid
           hit == HasPayment(pid) /\ payments[pid].status = "Pending" IN
         /\ payments' = IF hit
                        THEN [payments EXCEPT ![pid].status = "Confirmed",
                                              ![pid].confirmed_at = now]
                        ELSE payments
         /\ SetTask(t, IF hit
                       THEN [tasks[t] EXCEPT !.pc = "s_confirm_record"]
                       ELSE [tasks[t] EXCEPT !.ok = FALSE, !.pc = "done"])
    /\ UNCHANGED <<impl, scheduler, users, debts, processed_operations, nextDebtId, nextPaymentId, now, fsm>>

\* confirm_payment: record_processed_operation(...); return True
sync_confirm_payment_record(t) ==
    /\ At(t, "s_confirm_record")
    /\ processed_operations' =
          record_processed_operation(PaymentConfirmationHash(tasks[t].user, tasks[t].pid),
                                     "payment_confirmation", tasks[t].user,
                                     [payment_id |-> tasks[t].pid], tasks[t].pid)
    /\ SetTask(t, [tasks[t] EXCEPT !.ok = TRUE, !.pc = "close_debt"])
    /\ UNCHANGED <<impl, scheduler, users, debts, payments, nextDebtId, nextPaymentId, now, fsm>>

\* ------------------------------------------------- bot/handlers.py (BotHandlers)
\* callback select_user_<id>
sync_handle_user_selection(u, target) ==
    /\ Quiet
    /\ impl = "sync"
    /\ u \in users
    /\ target \in users
    /\ fsm' = [fsm EXCEPT ![u] = [NoSession EXCEPT !.debtor_id = target,
                                                  !.state = "waiting_debt_amount"]]
    /\ UNCHANGED <<impl, scheduler, store, now, tasks>>

\* text in state waiting_debt_amount
handle_debt_amount_input(u, text) ==
    /\ Quiet
    /\ impl = "sync"
    /\ fsm[u].state = "waiting_debt_amount"
    /\ ParseAmount(text) # NULL
    /\ ~NotAboveZero(ParseAmount(text))
    /\ fsm' = [fsm EXCEPT ![u].amount = ParseAmount(text), ![u].state = "waiting_debt_description"]
    /\ UNCHANGED <<impl, scheduler, store, now, tasks>>

\* text in state waiting_debt_description (description) or callback skip_description (None):
\* create_debt_final up to its first database statement
sync_create_debt_final(t, u, description) ==
    /\ impl = "sync"
    /\ IF description = NoText
       THEN fsm[u].state # "none" /\ fsm[u].debtor_id # NULL /\ fsm[u].amount # NULL
       ELSE fsm[u].state = "waiting_debt_description"
    /\ FreeSlot(t)
    /\ RoomForDebt
    /\ SetTask(t, [NewTask("create_debt_final", "s_debt_dup", u) EXCEPT
                      !.args = <<fsm[u].debtor_id, u, fsm[u].amount, description>>,
                      !.base = nextDebtId])
    /\ UNCHANGED <<impl, scheduler, store, now, fsm>>

\* callback pay_debt_<id>
sync_handle_pay_debt(u, did) ==
    /\ Quiet
    /\ impl = "sync"
    /\ get_debt(did)
    /\ debts[did].debtor_id = u
    /\ fsm' = [fsm EXCEPT ![u] = [NoSession EXCEPT !.debt_id = did,
                                                  !.state = "waiting_payment_receipt"]]
    /\ UNCHANGED <<impl, scheduler, store, now, tasks>>

\* photo or document in state waiting_payment_receipt, up to db.create_payment
handle_file(t, u) ==
    /\ impl = "sync"
    /\ fsm[u].state = "waiting_payment_receipt"
    /\ FreeSlot(t)
    /\ LET did == fsm[u].debt_id IN
         IF ~get_debt(did)
         THEN SetTask(t, [NewTask("handle_file", "state_clear", u) EXCEPT !.did = did])
         ELSE /\ RoomForPayment
              /\ SetTask(t, [NewTask("handle_file", "s_payment_dup", u) EXCEPT
                                !.did = did, !.file = "file",
                                !.args = <<u, debts[did].creditor_id,
                                           debts[did].amount, debts[did].description>>])
    /\ UNCHANGED <<impl, scheduler, store, now, fsm>>

\* callback confirm_payment_<id>: get_payment and the creditor check
sync_handle_confirm_payment(t, u, pid) ==
    /\ impl = "sync"
    /\ FreeSlot(t)
    /\ HasPayment(pid)
    /\ payments[pid].creditor_id = u
    /\ SetTask(t, [NewTask("handle_confirm_payment", "s_confirm_get", u) EXCEPT
                      !.pid = pid, !.did = payments[pid].debt_id])
    /\ UNCHANGED <<impl, scheduler, store, now, fsm>>

\* ------------------------------------------------------------------ clock
Tick ==
    /\ Quiet
    /\ now < ClockStart + MaxTime
    /\ now' = now + 1
    /\ UNCHANGED <<impl, scheduler, store, fsm, tasks>>

\* ------------------------------------------------------- specifications
\* debt creation: the conversations of both bots, the admin panel, the clock
NextDebt ==
    \/ Tick
    \/ \E u \in Creditors : handle_cmd_new_debt(u)
    \/ \E u \in Creditors, target \in Debtors : handle_user_selection(u, target)
    \/ \E u \in Creditors, text \in AmountTexts : handle_amount_input(u, text)
    \/ \E u \in Creditors, text \in {"-", "lunch"} : handle_description_input(u, text)
    \/ \E t \in TaskIds, u \in Creditors : handle_skip_receipt(t, u)
    \/ \E u \in Creditors : handle_cancel(u)
    \/ \E u \in Creditors, target \in Debtors : sync_handle_user_selection(u, target)
    \/ \E u \in Creditors, text \in AmountTexts : handle_debt_amount_input(u, text)
    \/ \E t \in TaskIds, u \in Creditors, x \in Descriptions : sync_create_debt_final(t, u, x)
    \/ \E t \in TaskIds, d \in Debtors, c \in Creditors, a \in Amounts :
            admin_create_debt(t, d, c, a, "lunch")
    \/ \E t \in TaskIds, did \in DebtIds : admin_close_debt(t, did)
    \/ \E u \in Users : delete_user_cascade(u)
    \/ \E t \in TaskIds : create_debt_check(t)
    \/ \E t \in TaskIds : create_debt_insert(t)
    \/ \E t \in TaskIds : sync_create_debt_check(t)
    \/ \E t \in TaskIds : sync_create_debt_processed(t)
    \/ \E t \in TaskIds : sync_create_debt_insert(t)
    \/ \E t \in TaskIds : sync_create_debt_record(t)
    \/ \E t \in TaskIds : close_debt(t)
    \/ \E t \in TaskIds : state_clear(t)
    \/ \E t \in TaskIds : Return(t)

SpecDebt == Init /\ [][NextDebt]_vars

\* debt creation with any user named in the select_user callback, the
\* acting user included, and the admin's form
NextSelection ==
    \/ \E u \in Creditors, target \in Users : handle_user_selection(u, target)
    \/ \E u \in Creditors, text \in AmountTexts : handle_amount_input(u, text)
    \/ \E u \in Creditors, text \in {"-", "lunch"} : handle_description_input(u, text)
    \/ \E t \in TaskIds, u \in Creditors : handle_skip_receipt(t, u)
    \/ \E u \in Creditors, target \in Users : sync_handle_user_selection(u, target)
    \/ \E u \in Creditors, text \in AmountTexts : handle_debt_amount_input(u, text)
    \/ \E t \in TaskIds, u \in Creditors, x \in Descriptions : sync_create_debt_final(t, u, x)
    \/ \E t \in TaskIds, d \in Users, c \in Users, a \in Amounts :
            admin_create_debt(t, d, c, a, "lunch")
    \/ \E t \in TaskIds : create_debt_check(t)
    \/ \E t \in TaskIds : create_debt_insert(t)
    \/ \E t \in TaskIds : sync_create_debt_check(t)
    \/ \E t \in TaskIds : sync_create_debt_processed(t)
    \/ \E t \in TaskIds : sync_create_debt_insert(t)
    \/ \E t \in TaskIds : sync_create_debt_record(t)
    \/ \E t \in TaskIds : state_clear(t)
    \/ \E t \in TaskIds : Return(t)

SpecSelection == Init /\ [][NextSelection]_vars

\* a ledger that holds one open debt of user 1 to user 2
InitPayment ==
    /\ impl \in {"async", "sync"}
    /\ users = Users
    /\ now = ClockStart
    /\ debts = 1 :> DebtRow(1, 2, 10, "lunch")
    /\ payments = << >>
    /\ processed_operations = {}
    /\ nextDebtId = 2
    /\ nextPaymentId = 1
    /\ fsm = [u \in Users |-> NoSession]
    /\ tasks = [t \in TaskIds |-> IdleTask]
    /\ InitScheduler

\* payments on that debt: submit, confirm, reject
NextPayment ==
    \/ Tick
    \/ \E u \in Users, did \in DebtIds : handle_pay_debt(u, did)
    \/ \E t \in TaskIds, u \in Users : process_payment_receipt(t, u)
    \/ \E t \in TaskIds, u \in Users, pid \in PaymentIds : handle_confirm_payment(t, u, pid)
    \/ \E u \in Users, pid \in PaymentIds : handle_cancel_payment(u, pid)
    \/ \E t \in TaskIds, u \in Users, text \in Reasons : handle_cancel_reason_input(t, u, text)
    \/ \E u \in Users, did \in DebtIds : sync_handle_pay_debt(u, did)
    \/ \E t \in TaskIds, u \in Users : handle_file(t, u)
    \/ \E t \in TaskIds, u \in Users, pid \in PaymentIds : sync_handle_confirm_payment(t, u, pid)
    \/ \E t \in TaskIds : create_payment_check(t)
    \/ \E t \in TaskIds : create_payment_insert(t)
    \/ \E t \in TaskIds : confirm_payment_select(t)
    \/ \E t \in TaskIds : confirm_payment_update(t)
    \/ \E t \in TaskIds : cancel_payment_select(t)
    \/ \E t \in TaskIds : cancel_payment_update(t)
    \/ \E t \in TaskIds : sync_create_payment_check(t)
    \/ \E t \in TaskIds : sync_create_payment_processed(t)
    \/ \E t \in TaskIds : sync_create_payment_insert(t)
    \/ \E t \in TaskIds : sync_create_payment_record(t)
    \/ \E t \in TaskIds : sync_confirm_payment_get(t)
    \/ \E t \in TaskIds : sync_confirm_payment_processed(t)
    \/ \E t \in TaskIds : sync_confirm_payment_update(t)
    \/ \E t \in TaskIds : sync_confirm_payment_record(t)
    \/ \E t \in TaskIds : close_debt(t)
    \/ \E t \in TaskIds : state_clear(t)
    \/ \E t \in TaskIds : Return(t)

SpecPayment == InitPayment /\ [][NextPayment]_vars

\* ------------------------------------- review of a submitted payment
\* the early return of handle_confirm_payment, the same in both bots:
\* if not payment or payment['creditor_id'] != call.from_user.id: answer; return
handle_confirm_payment_denied(t, u, pid) ==
    /\ FreeSlot(t)
    /\ ~(HasPayment(pid) /\ payments[pid].creditor_id = u)
    /\ SetTask(t, [NewTask("handle_confirm_payment", "done", u) EXCEPT
                      !.pid = pid, !.seen = "denied"])
    /\ UNCHANGED <<impl, scheduler, store, now, fsm>>

\* the early return of handle_cancel_payment: the same test, no state is set
handle_cancel_payment_denied(t, u, pid) ==
    /\ impl = "async"
    /\ FreeSlot(t)
    /\ ~(HasPayment(pid) /\ payments[pid].creditor_id = u)
    /\ SetTask(t, [NewTask("handle_cancel_payment", "done", u) EXCEPT
                      !.pid = pid, !.seen = "denied"])
    /\ UNCHANGED <<impl, scheduler, store, now, fsm>>

\* handle_cancel_reason_input on a message it does not accept: message.text is
\* None (a photo, a sticker; .strip() raises) or strips to the empty string
\* (answer, return); the conversation stays in entering_cancel_reason
handle_cancel_reason_input_rejected(t, u, text) ==
    /\ impl = "async"
    /\ fsm[u].state = "entering_cancel_reason"
    /\ text = NoText \/ Strip(text) = ""
    /\ FreeSlot(t)
    /\ SetTask(t, [NewTask("handle_cancel_reason_input", "done", u) EXCEPT
                      !.pid = fsm[u].payment_id, !.reason = text, !.seen = "rejected"])
    /\ UNCHANGED <<impl, scheduler, store, now, fsm>>

\* BotHandlers.handle_dispute_payment (callback dispute_payment_<id>):
\* get_payment and the creditor check
handle_dispute_payment(t, u, pid) ==
    /\ impl = "sync"
    /\ FreeSlot(t)
    /\ IF HasPayment(pid) /\ payments[pid].creditor_id = u
       THEN SetTask(t, [NewTask("handle_dispute_payment", "s_dispute_payment", u) EXCEPT
                           !.pid = pid, !.did = payments[pid].debt_id,
                           !.seen = payments[pid].status])
       ELSE SetTask(t, [NewTask("handle_dispute_payment", "done", u) EXCEPT
                           !.pid = pid, !.seen = "denied"])
    /\ UNCHANGED <<impl, scheduler, store, now, fsm>>

\* DatabaseManager.dispute_payment: UPDATE payments SET status = 'Disputed' WHERE id = ?;
\* return cursor.rowcount > 0
dispute_payment(t) ==
    /\ At(t, "s_dispute_payment")
    /\ LET pid == tasks[t].pid IN
         IF HasPayment(pid)
         THEN /\ payments' = [payments EXCEPT ![pid].status = "Disputed"]
              /\ SetTask(t, [tasks[t] EXCEPT !.pc = "s_dispute_debt"])
         ELSE /\ payments' = payments
              /\ SetTask(t, [tasks[t] EXCEPT !.ok = FALSE, !.pc = "done"])
    /\ UNCHANGED <<impl, scheduler, users, debts, processed_operations, nextDebtId, nextPaymentId, now, fsm>>

\* DatabaseManager.dispute_debt: UPDATE debts SET status = 'Disputed' WHERE id = ?
dispute_debt(t) ==
    /\ At(t, "s_dispute_debt")
    /\ LET did == tasks[t].did IN
         debts' = IF did \in DOMAIN debts
                  THEN [debts EXCEPT ![did].status = "Disputed"]
                  ELSE debts
    /\ SetTask(t, [tasks[t] EXCEPT !.ok = TRUE, !.pc = "done"])
    /\ UNCHANGED <<impl, scheduler, users, payments, processed_operations, nextDebtId, nextPaymentId, now, fsm>>

\* what a creditor may type as the reason of a rejection
ReasonTexts == {" ", "blurry", "wrong sum"}

\* a ledger that holds one open debt of user 1 to user 2 and the debtor's
\* payment for it, waiting for the creditor
InitReview ==
    /\ impl \in {"async", "sync"}
    /\ users = Users
    /\ now = ClockStart
    /\ debts = 1 :> DebtRow(1, 2, 10, "lunch")
    /\ payments = 1 :> PaymentRow(1, 1, 2, "file")
    /\ processed_operations = {}
    /\ nextDebtId = 2
    /\ nextPaymentId = 2
    /\ fsm = [u \in Users |-> NoSession]
    /\ tasks = [t \in TaskIds |-> IdleTask]
    /\ InitScheduler

\* the buttons under the receipt, pressed by anyone, and the admin's close button
NextReview ==
    \/ Tick
    \/ \E t \in TaskIds, u \in Users, pid \in PaymentIds : handle_confirm_payment(t, u, pid)
    \/ \E t \in TaskIds, u \in Users, pid \in PaymentIds : handle_confirm_payment_denied(t, u, pid)
    \/ \E u \in Users, pid \in PaymentIds : handle_cancel_payment(u, pid)
    \/ \E t \in TaskIds, u \in Users, pid \in PaymentIds : handle_cancel_payment_denied(t, u, pid)
    \/ \E t \in TaskIds, u \in Users, text \in ReasonTexts : handle_cancel_reason_input(t, u, text)
    \/ \E t \in TaskIds, u \in Users, text \in {NoText, " "} :
            handle_cancel_reason_input_rejected(t, u, text)
    \/ \E t \in TaskIds, u \in Users, pid \in PaymentIds : sync_handle_confirm_payment(t, u, pid)
    \/ \E t \in TaskIds, u \in Users, pid \in PaymentIds : handle_dispute_payment(t, u, pid)
    \/ \E t \in TaskIds, did \in DebtIds : admin_close_debt(t, did)
    \/ \E t \in TaskIds : confirm_payment_select(t)
    \/ \E t \in TaskIds : confirm_payment_update(t)
    \/ \E t \in TaskIds : cancel_payment_select(t)
    \/ \E t \in TaskIds : cancel_payment_update(t)
    \/ \E t \in TaskIds : sync_confirm_payment_get(t)
    \/ \E t \in TaskIds : sync_confirm_payment_processed(t)
    \/ \E t \in TaskIds : sync_confirm_payment_update(t)
    \/ \E t \in TaskIds : sync_confirm_payment_record(t)
    \/ \E t \in TaskIds : dispute_payment(t)
    \/ \E t \in TaskIds : dispute_debt(t)
    \/ \E t \in TaskIds : close_debt(t)
    \/ \E t \in TaskIds : state_clear(t)
    \/ \E t \in TaskIds : Return(t)

SpecReview == InitReview /\ [][NextReview]_vars

\* the same buttons with the clock standing still and the admin away
NextCreditor ==
    \/ \E t \in TaskIds, u \in Users, pid \in PaymentIds : handle_confirm_payment(t, u, pid)
    \/ \E t \in TaskIds, u \in Users, pid \in PaymentIds : handle_confirm_payment_denied(t, u, pid)
    \/ \E u \in Users, pid \in PaymentIds : handle_cancel_payment(u, pid)
    \/ \E t \in TaskIds, u \in Users, pid \in PaymentIds : handle_cancel_payment_denied(t, u, pid)
    \/ \E t \in TaskIds, u \in Users, text \in ReasonTexts : handle_cancel_reason_input(t, u, text)
    \/ \E t \in TaskIds, u \in Users, text \in {NoText, " "} :
            handle_cancel_reason_input_rejected(t, u, text)
    \/ \E t \in TaskIds, u \in Users, pid \in PaymentIds : sync_handle_confirm_payment(t, u, pid)
    \/ \E t \in TaskIds, u \in Users, pid \in PaymentIds : handle_dispute_payment(t, u, pid)
    \/ \E t \in TaskIds : confirm_payment_select(t)
    \/ \E t \in TaskIds : confirm_payment_update(t)
    \/ \E t \in TaskIds : cancel_payment_select(t)
    \/ \E t \in TaskIds : cancel_payment_update(t)
    \/ \E t \in TaskIds : sync_confirm_payment_get(t)
    \/ \E t \in TaskIds : sync_confirm_payment_processed(t)
    \/ \E t \in TaskIds : sync_confirm_payment_update(t)
    \/ \E t \in TaskIds : sync_confirm_payment_record(t)
    \/ \E t \in TaskIds : dispute_payment(t)
    \/ \E t \in TaskIds : dispute_debt(t)
    \/ \E t \in TaskIds : close_debt(t)
    \/ \E t \in TaskIds : state_clear(t)
    \/ \E t \in TaskIds : Return(t)

SpecCreditor == InitReview /\ [][NextCreditor]_vars

\* ------------------------------------- a receipt upload and a user removal
\* the debtor pays the seeded debt while the admin removes users
NextUpload ==
    \/ \E u \in Users, did \in DebtIds : handle_pay_debt(u, did)
    \/ \E t \in TaskIds, u \in Users : process_payment_receipt(t, u)
    \/ \E u \in Users, did \in DebtIds : sync_handle_pay_debt(u, did)
    \/ \E t \in TaskIds, u \in Users : handle_file(t, u)
    \/ \E u \in Users : delete_user_cascade(u)
    \/ \E t \in TaskIds : create_payment_check(t)
    \/ \E t \in TaskIds : create_payment_insert(t)
    \/ \E t \in TaskIds : sync_create_payment_check(t)
    \/ \E t \in TaskIds : sync_create_payment_processed(t)
    \/ \E t \in TaskIds : sync_create_payment_insert(t)
    \/ \E t \in TaskIds : sync_create_payment_record(t)
    \/ \E t \in TaskIds : state_clear(t)
    \/ \E t \in TaskIds : Return(t)

SpecUpload == InitPayment /\ [][NextUpload]_vars

\* ------------------------------------------ the last input of a session
\* user 2 has chosen debtor 1, amount 10 and description "lunch" and is asked
\* for the receipt (async) or has yet to send the description (sync), or user 1
\* has pressed "pay" under debt 1 and is asked for the receipt
InitFinalize ==
    /\ impl \in {"async", "sync"}
    /\ users = Users
    /\ now = ClockStart
    /\ payments = << >>
    /\ processed_operations = {}
    /\ nextPaymentId = 1
    /\ \/ /\ debts = << >>
          /\ nextDebtId = 1
          /\ fsm = [u \in Users |->
                      IF u = 2
                      THEN [NoSession EXCEPT
                               !.state = IF impl = "async" THEN "uploading_receipt"
                                         ELSE "waiting_debt_description",
                               !.debtor_id = 1, !.amount = 10, !.description = "lunch"]
                      ELSE NoSession]
       \/ /\ debts = 1 :> DebtRow(1, 2, 10, "lunch")
          /\ nextDebtId = 2
          /\ fsm = [u \in Users |->
                      IF u = 1
                      THEN [NoSession EXCEPT
                               !.state = IF impl = "async" THEN "pay_uploading_receipt"
                                         ELSE "waiting_payment_receipt",
                               !.debt_id = 1]
                      ELSE NoSession]
    /\ tasks = [t \in TaskIds |-> IdleTask]
    /\ InitScheduler

\* the input that completes the session, delivered any number of times; no
\* new session is started
NextFinalize ==
    \/ \E t \in TaskIds, u \in Users : handle_receipt_upload(t, u)
    \/ \E t \in TaskIds, u \in Users : handle_skip_receipt(t, u)
    \/ \E t \in TaskIds, u \in Users : process_payment_receipt(t, u)
    \/ \E t \in TaskIds, u \in Users : sync_create_debt_final(t, u, "lunch")
    \/ \E t \in TaskIds, u \in Users : handle_file(t, u)
    \/ \E t \in TaskIds : create_debt_check(t)
    \/ \E t \in TaskIds : create_debt_insert(t)
    \/ \E t \in TaskIds : create_payment_check(t)
    \/ \E t \in TaskIds : create_payment_insert(t)
    \/ \E t \in TaskIds : sync_create_debt_check(t)
    \/ \E t \in TaskIds : sync_create_debt_processed(t)
    \/ \E t \in TaskIds : sync_create_debt_insert(t)
    \/ \E t \in TaskIds : sync_create_debt_record(t)
    \/ \E t \in TaskIds : sync_create_payment_check(t)
    \/ \E t \in TaskIds : sync_create_payment_processed(t)
    \/ \E t \in TaskIds : sync_create_payment_insert(t)
    \/ \E t \in TaskIds : sync_create_payment_record(t)
    \/ \E t \in TaskIds : state_clear(t)
    \/ \E t \in TaskIds : Return(t)

SpecFinalize == InitFinalize /\ [][NextFinalize]_vars

\* ------------------------------------- delete_user_cascade, statement by statement
\* the statements of delete_user_cascade in the order they run (async_db.py;
\* db.py deletes payments before debts)
CascadePcs == <<"delete_debts", "delete_payments", "delete_operations", "delete_user", "commit">>

\* position of a statement in the cascade
CascadeIndex(pc) == CHOOSE i \in 1 .. Len(CascadePcs) : CascadePcs[i] = pc

\* admin panel, "delete user": db.delete_user_cascade(user_id) is called
admin_delete_user(t, u) ==
    /\ FreeSlot(t)
    /\ u \in users
    /\ SetTask(t, NewTask("delete_user_cascade", CascadePcs[1], u))
    /\ UNCHANGED <<impl, scheduler, store, now, fsm>>

\* the store once the first k statements of the cascade for u are applied
CascadeApplied(u, k) ==
    LET keptDebts == {d \in DOMAIN debts :
                         debts[d].debtor_id # u /\ debts[d].creditor_id # u}
        keptPayments == {p \in DOMAIN payments :
                         payments[p].debtor_id # u /\ payments[p].creditor_id # u} IN
    /\ debts' = IF k >= 1 THEN [d \in keptDebts |-> debts[d]] ELSE debts
    /\ payments' = IF k >= 2 THEN [p \in keptPayments |-> payments[p]] ELSE payments
    /\ processed_operations' =
          IF k >= 3 THEN {r \in processed_operations : r.user_id # u} ELSE processed_operations
    /\ users' = IF k >= 4 THEN users \ {u} ELSE users
    /\ UNCHANGED <<nextDebtId, nextPaymentId>>

\* a DELETE of the cascade written through at once, without the transaction
cascade_execute_autocommit(t) ==
    /\ Quiet
    /\ tasks[t].op = "delete_user_cascade"
    /\ tasks[t].pc \notin {"commit", "done"}
    /\ \/ /\ CascadeApplied(tasks[t].user, CascadeIndex(tasks[t].pc))
          /\ SetTask(t, [tasks[t] EXCEPT !.pc = CascadePcs[CascadeIndex(tasks[t].pc) + 1]])
       \/ /\ SetTask(t, [tasks[t] EXCEPT !.ok = FALSE, !.pc = "done"])
          /\ UNCHANGED store
    /\ UNCHANGED <<impl, scheduler, now, fsm>>

\* one DELETE of the cascade: await db.execute(...) inside the connection's
\* transaction, so nothing reaches the tables other connections read before
\* the commit; a statement that raises (database is locked, disk I/O error)
\* ends the call: the connection is closed without a commit, which rolls the
\* transaction back, and the except branch returns False
cascade_execute(t) ==
    /\ Quiet
    /\ tasks[t].op = "delete_user_cascade"
    /\ tasks[t].pc \notin {"commit", "done"}
    /\ \/ SetTask(t, [tasks[t] EXCEPT !.pc = CascadePcs[CascadeIndex(tasks[t].pc) + 1]])
       \/ SetTask(t, [tasks[t] EXCEPT !.ok = FALSE, !.pc = "done"])
    /\ UNCHANGED <<impl, scheduler, store, now, fsm>>

\* await db.commit(); return True - or the commit raises and nothing is applied
cascade_commit(t) ==
    /\ At(t, "commit")
    /\ \/ /\ CascadeApplied(tasks[t].user, 4)
          /\ SetTask(t, [tasks[t] EXCEPT !.ok = TRUE, !.pc = "done"])
       \/ /\ SetTask(t, [tasks[t] EXCEPT !.ok = FALSE, !.pc = "done"])
          /\ UNCHANGED store
    /\ UNCHANGED <<impl, scheduler, now, fsm>>

\* the sync bot's ledger after debtor 1 submitted a payment for the debt to
\* creditor 2: the debt, the Pending payment, create_payment's operation record
InitCascade ==
    /\ impl = "sync"
    /\ users = Users
    /\ now = ClockStart
    /\ debts = 1 :> DebtRow(1, 2, 10, "lunch")
    /\ payments = 1 :> PaymentRow(1, 1, 2, "file")
    /\ processed_operations =
          {[operation_hash |-> PaymentCreationHash(1, 1, 2), operation_type |-> "payment_creation",
            user_id |-> 1, operation_data |-> [debt_id |-> 1, creditor_id |-> 2],
            result_id |-> 1, expires_at |-> ClockStart + ExpiresMinutes]}
    /\ nextDebtId = 2
    /\ nextPaymentId = 2
    /\ fsm = [u \in Users |-> NoSession]
    /\ tasks = [t \in TaskIds |-> IdleTask]
    /\ InitScheduler

\* users are removed in the admin panel while the creditor confirms the payment
NextCascade ==
    \/ \E t \in TaskIds, u \in Users : admin_delete_user(t, u)
    \/ \E t \in TaskIds : cascade_execute(t)
    \/ \E t \in TaskIds : cascade_commit(t)
    \/ \E t \in TaskIds, u \in Creditors, pid \in PaymentIds : sync_handle_confirm_payment(t, u, pid)
    \/ \E t \in TaskIds : sync_confirm_payment_get(t)
    \/ \E t \in TaskIds : sync_confirm_payment_processed(t)
    \/ \E t \in TaskIds : sync_confirm_payment_update(t)
    \/ \E t \in TaskIds : sync_confirm_payment_record(t)
    \/ \E t \in TaskIds : close_debt(t)
    \/ \E t \in TaskIds : Return(t)

SpecCascade == InitCascade /\ [][NextCascade]_vars

\* ------------------------------------- the operation records on their own
\* AsyncDatabaseManager.check_operation_processed:
\* SELECT * FROM processed_operations WHERE operation_hash = ?
async_check_operation_processed(operation_hash) ==
    {r \in processed_operations : r.operation_hash = operation_hash}

\* the operations recorded in the runs: (operation_type, user_id, kwargs, operation_data)
OperationCalls ==
    { <<"payment_creation", 1, << <<"debt_id", 1>>, <<"creditor_id", 2>> >>,
        [debt_id |-> 1, creditor_id |-> 2]>>,
      <<"payment_confirmation", 2, << <<"payment_id", 1>> >>, [payment_id |-> 1]>> }

\* record_processed_operation(hash, type, user, data, result_id) of either manager
call_record_processed_operation(t, c, result_id) ==
    /\ FreeSlot(t)
    /\ processed_operations' =
          record_processed_operation(create_operation_hash(c[1], c[2], c[3]),
                                     c[1], c[2], c[4], result_id)
    /\ SetTask(t, [NewTask("record_processed_operation", "done", c[2]) EXCEPT
                      !.reason = c[1], !.file = c[3][1][1], !.rid = result_id, !.ok = TRUE])
    /\ UNCHANGED <<impl, scheduler, users, debts, payments, nextDebtId, nextPaymentId, now, fsm>>

\* check_operation_processed(hash) of the manager in use: the row it returns
\* (its result_id and expires_at are kept in the frame) or None; the frame's
\* file is the first keyword the caller passed to create_operation_hash
call_check_operation_processed(t, c) ==
    /\ FreeSlot(t)
    /\ LET h == create_operation_hash(c[1], c[2], c[3])
           rows == IF impl = "sync" THEN check_operation_processed(h)
                   ELSE async_check_operation_processed(h) IN
         IF rows = {}
         THEN SetTask(t, [NewTask("check_operation_processed", "done", c[2]) EXCEPT
                             !.reason = c[1], !.file = c[3][1][1], !.seen = "None"])
         ELSE \E r \in rows :
                SetTask(t, [NewTask("check_operation_processed", "done", c[2]) EXCEPT
                               !.reason = c[1], !.file = c[3][1][1], !.seen = "row",
                               !.rid = r.result_id, !.base = r.expires_at])
    /\ UNCHANGED <<impl, scheduler, store, now, fsm>>

\* the scheduler's cleanup job:
\* DELETE FROM processed_operations WHERE datetime(expires_at) <= datetime('now')
cleanup_expired_operations ==
    /\ Quiet
    /\ processed_operations' =
          {r \in processed_operations : ~(r.expires_at # NULL /\ r.expires_at <= now)}
    /\ UNCHANGED <<impl, scheduler, users, debts, payments, nextDebtId, nextPaymentId, now, fsm, tasks>>

\* nothing happens for the life of a record
Sleep ==
    /\ Quiet
    /\ now <= ClockStart + MaxTime
    /\ now' = now + ExpiresMinutes
    /\ UNCHANGED <<impl, scheduler, store, fsm, tasks>>

NextOperations ==
    \/ Tick
    \/ Sleep
    \/ cleanup_expired_operations
    \/ \E t \in TaskIds, c \in OperationCalls, id \in PaymentIds :
            call_record_processed_operation(t, c, id)
    \/ \E t \in TaskIds, c \in OperationCalls : call_check_operation_processed(t, c)
    \/ \E t \in TaskIds : Return(t)

SpecOperations == Init /\ [][NextOperations]_vars

\* ---------------------------------------- the fingerprint of an operation
\* the sequences that list the members of S once each: the orders in which a
\* caller can pass the keyword arguments S
Orders(S) ==
    {s \in [1..Cardinality(S) -> S] : \A i, j \in 1..Cardinality(S) : i # j => s[i] # s[j]}

\* the operations fingerprinted in the runs: (operation_type, user_id, parameters)
HashOperations ==
    { <<"debt_creation", c, {<<"debtor_id", d>>, <<"amount", a>>, <<"description", "lunch">>}>> :
        c \in Creditors, d \in Debtors, a \in Amounts }
    \cup
    { <<"payment_creation", u, {<<"debt_id", d>>, <<"creditor_id", c>>}>> :
        u \in Debtors, d \in DebtIds, c \in Creditors }

\* every call of them: (operation_type, user_id, kwargs in the order passed, parameters)
HashCalls ==
    UNION { { <<o[1], o[2], s, o[3]>> : s \in Orders(o[3]) } : o \in HashOperations }

NextHash ==
    \/ \E t \in TaskIds, c \in HashCalls, id \in PaymentIds :
            call_record_processed_operation(t, c, id)
    \/ \E t \in TaskIds, c \in HashCalls : call_check_operation_processed(t, c)
    \/ \E t \in TaskIds : Return(t)

SpecHash == Init /\ [][NextHash]_vars

\* ------------------------------------------------ the scheduler's cleanup job
\* the rows the job's DELETE selects: datetime(expires_at) <= datetime('now')
\* (no row when expires_at is NULL)
ExpiredOperations ==
    {r \in processed_operations : r.expires_at # NULL /\ r.expires_at <= now}

\* the job with a DELETE that has no WHERE clause
scheduler_cleanup_expired_operations_unfiltered(t) ==
    /\ FreeSlot(t)
    /\ \/ /\ processed_operations' = {}
          /\ SetTask(t, [NewTask("cleanup_expired_operations", "done", NULL) EXCEPT
                            !.ok = TRUE, !.rid = Cardinality(processed_operations)])
       \/ /\ processed_operations' = processed_operations
          /\ SetTask(t, [NewTask("cleanup_expired_operations", "done", NULL) EXCEPT
                            !.ok = FALSE, !.rid = 0])
    /\ UNCHANGED <<impl, scheduler, users, debts, payments, nextDebtId, nextPaymentId, now, fsm>>

\* AsyncScheduler.cleanup_expired_operations -> db.cleanup_expired_operations():
\* DELETE ... WHERE datetime(expires_at) <= datetime('now'); commit; return rowcount;
\* an exception (before the commit took effect) is logged and 0 is returned.
\* The frame keeps the returned count in rid, ok tells whether the DELETE was committed.
scheduler_cleanup_expired_operations(t) ==
    /\ FreeSlot(t)
    /\ \/ /\ processed_operations' = processed_operations \ ExpiredOperations
          /\ SetTask(t, [NewTask("cleanup_expired_operations", "done", NULL) EXCEPT
                            !.ok = TRUE, !.rid = Cardinality(ExpiredOperations)])
       \/ /\ processed_operations' = processed_operations
          /\ SetTask(t, [NewTask("cleanup_expired_operations", "done", NULL) EXCEPT
                            !.ok = FALSE, !.rid = 0])
    /\ UNCHANGED <<impl, scheduler, users, debts, payments, nextDebtId, nextPaymentId, now, fsm>>

\* a ledger with one debt and one payment, no operation recorded yet
NextCleanup ==
    \/ Tick
    \/ Sleep
    \/ \E t \in TaskIds, c \in OperationCalls, id \in PaymentIds :
            call_record_processed_operation(t, c, id)
    \/ \E t \in TaskIds : scheduler_cleanup_expired_operations(t)
    \/ \E t \in TaskIds : Return(t)

SpecCleanup == InitReview /\ [][NextCleanup]_vars

\* ------------------------------------------------------ the reminder job
\* the sequences of the debts S in ascending (or descending) created_at; rows
\* with equal created_at come in either order
OrderByCreatedAt(S, ascending) ==
    {q \in Orders(S) :
        \A i, j \in DOMAIN q :
            i < j => IF ascending
                     THEN debts[q[i]].created_at <= debts[q[j]].created_at
                     ELSE debts[q[i]].created_at >= debts[q[j]].created_at}

\* the query without its status condition
get_debts_for_reminder_any_status ==
    OrderByCreatedAt(
        {d \in DOMAIN debts :
            /\ debts[d].debtor_id \in users /\ debts[d].creditor_id \in users
            /\ (debts[d].last_reminder = NULL
                \/ debts[d].last_reminder <= now - MinutesPerDay)},
        TRUE)

\* AsyncDatabaseManager.get_debts_for_reminder: FROM debts d JOIN users u1 ... JOIN users u2 ...
\* WHERE d.status = 'Open' AND (d.last_reminder IS NULL OR
\* datetime(d.last_reminder) <= datetime('now', '-1 day')) ORDER BY d.created_at ASC
get_debts_for_reminder ==
    OrderByCreatedAt(
        {d \in DOMAIN debts :
            /\ debts[d].debtor_id \in users /\ debts[d].creditor_id \in users
            /\ debts[d].status = "Open"
            /\ (debts[d].last_reminder = NULL
                \/ debts[d].last_reminder <= now - MinutesPerDay)},
        TRUE)

\* DatabaseManager.get_debts_for_reminder: ... WHERE d.status = 'Open' AND (d.last_reminder IS NULL
\* OR datetime(d.last_reminder, '+' || d.reminder_frequency || ' days') <= datetime('now'))
\* ORDER BY d.created_at DESC
sync_get_debts_for_reminder ==
    OrderByCreatedAt(
        {d \in DOMAIN debts :
            /\ debts[d].debtor_id \in users /\ debts[d].creditor_id \in users
            /\ debts[d].status = "Open"
            /\ (debts[d].last_reminder = NULL
                \/ debts[d].last_reminder + debts[d].reminder_frequency * MinutesPerDay <= now)},
        FALSE)

\* the job's query in the bot that runs
DebtsForReminder ==
    IF impl = "sync" THEN sync_get_debts_for_reminder ELSE get_debts_for_reminder

\* the debt the run is working on
CurrentDebt == batch.queue[Len(batch.attempted)]

\* the loop goes on to the next debt of the list or ends
NextInBatch == IF Len(batch.attempted) < Len(batch.queue) THEN "send" ELSE "done"

\* the scheduler fires the job (no run of it is in progress: max_instances is 1):
\* send_reminders reads the debts to remind of; an exception is logged and the run ends
send_reminders ==
    /\ batch.pc = "idle"
    /\ \E j \in jobs :
         /\ j.id = "debt_reminders"
         /\ j.next_run_time = now
         /\ jobs' = (jobs \ {j})
                     \cup {Job(j.id, j.trigger, NextFireTime(j.trigger, now + 1))}
    /\ \E queue \in DebtsForReminder \cup {<< >>} :
         batch' = [NoBatch EXCEPT !.pc = IF queue = << >> THEN "done" ELSE "send",
                                  !.queue = queue]
    /\ UNCHANGED <<impl, store, now, fsm, tasks, settings, outbox>>

\* the loop without the try around its body: a failing send ends the run
send_debt_reminder_unguarded ==
    /\ batch.pc = "send"
    /\ LET d == batch.queue[Len(batch.attempted) + 1]
           after == [batch EXCEPT !.attempted = Append(@, d)] IN
         \/ /\ outbox' = [outbox EXCEPT ![d] = now]
            /\ batch' = [after EXCEPT !.sent = Append(@, d), !.pc = "mark"]
         \/ /\ outbox' = outbox
            /\ batch' = [after EXCEPT !.pc = "done"]
    /\ UNCHANGED <<impl, store, now, fsm, tasks, settings, jobs>>

\* send_debt_reminder(debt) for the next debt of the list.  AsyncScheduler's
\* catches a failing bot.send_message itself, so update_reminder_sent follows
\* either way; BotHandlers' lets it raise, and the loop goes on to the next debt.
send_debt_reminder ==
    /\ batch.pc = "send"
    /\ LET d == batch.queue[Len(batch.attempted) + 1]
           after == [batch EXCEPT !.attempted = Append(@, d)] IN
         \/ /\ outbox' = [outbox EXCEPT ![d] = now]
            /\ batch' = [after EXCEPT !.sent = Append(@, d), !.pc = "mark"]
         \/ /\ outbox' = outbox
            /\ batch' = [after EXCEPT !.pc =
                            IF impl = "async" THEN "mark"
                            ELSE IF Len(after.attempted) < Len(after.queue) THEN "send" ELSE "done"]
    /\ UNCHANGED <<impl, store, now, fsm, tasks, settings, jobs>>

\* update_reminder_sent(debt_id): UPDATE debts SET last_reminder = now WHERE id = ?,
\* or an exception that is logged (the method returns False, its caller goes on)
update_reminder_sent ==
    /\ batch.pc = "mark"
    /\ \/ debts' = IF CurrentDebt \in DOMAIN debts
                    THEN [debts EXCEPT ![CurrentDebt].last_reminder = now]
                    ELSE debts
       \/ debts' = debts
    /\ batch' = [batch EXCEPT !.marked = Append(@, CurrentDebt), !.pc = NextInBatch]
    /\ UNCHANGED <<impl, users, payments, processed_operations, nextDebtId, nextPaymentId,
                   now, fsm, tasks, settings, jobs, outbox>>

\* send_reminders returns to the scheduler
send_reminders_return ==
    /\ batch.pc = "done"
    /\ batch' = NoBatch
    /\ UNCHANGED <<impl, store, now, fsm, tasks, settings, jobs, outbox>>

\* the debtor presses "remind later" under a reminder: the async handler checks
\* that the debt is the user's and stamps last_reminder, the sync handler only answers
handle_remind_later(u, did) ==
    /\ Quiet
    /\ get_debt(did)
    /\ debts[did].debtor_id = u
    /\ debts' = IF impl = "async" THEN [debts EXCEPT ![did].last_reminder = now] ELSE debts
    /\ UNCHANGED <<impl, scheduler, users, payments, processed_operations, nextDebtId,
                   nextPaymentId, now, fsm, tasks>>

\* the admin panel's close button under an open debt, the page load and the
\* UPDATE of close_debt taken together
admin_close_open_debt(did) ==
    /\ Quiet
    /\ get_debt(did)
    /\ debts[did].status = "Open"
    /\ debts' = [debts EXCEPT ![did].status = "Closed", ![did].closed_at = now]
    /\ UNCHANGED <<impl, scheduler, users, payments, processed_operations, nextDebtId,
                   nextPaymentId, now, fsm, tasks>>

\* the times looked at: the first minutes of the run and the minutes around
\* the same time of the next day
ClockPoints ==
    {ClockStart + k : k \in 0..MaxTime}
    \cup {ClockStart + MinutesPerDay - 1 + k : k \in 0..(MaxTime + 1)}

\* between two runs of the job the clock moves on by a minute or by a minute
\* less than a day
Advance(minutes) ==
    /\ Quiet
    /\ batch.pc = "idle"
    /\ now + minutes \in ClockPoints
    /\ now' = now + minutes
    /\ UNCHANGED <<impl, scheduler, store, fsm, tasks>>

\* a ledger of open debts of user 1 to user 2, created a minute apart; the
\* youngest may be under dispute
InitReminder ==
    /\ impl \in {"async", "sync"}
    /\ users = Users
    /\ now = ClockStart
    /\ \E st \in {"Open", "Disputed"} :
          debts = [d \in DebtIds |->
                     [DebtRow(1, 2, 10, "lunch") EXCEPT
                         !.created_at = ClockStart - MaxDebts + d - 1,
                         !.status = IF d = MaxDebts THEN st ELSE "Open"]]
    /\ payments = << >>
    /\ processed_operations = {}
    /\ nextDebtId = MaxDebts + 1
    /\ nextPaymentId = 1
    /\ fsm = [u \in Users |-> NoSession]
    /\ tasks = [t \in TaskIds |-> IdleTask]
    /\ InitScheduler

NextReminder ==
    \/ \E m \in {1, MinutesPerDay - 1} : Advance(m)
    \/ send_reminders
    \/ send_debt_reminder
    \/ update_reminder_sent
    \/ send_reminders_return
    \/ \E d \in DebtIds : admin_close_open_debt(d)

SpecReminder == InitReminder /\ [][NextReminder]_vars

\* ------------------------------------------- reconfiguring the reminder job
\* str(frequency)
Str(n) ==
    CASE n = 1 -> "1"
      [] n = 2 -> "2"
      [] n = 3 -> "3"

\* the values the reminders are reconfigured to
Frequencies == 1..MaxFrequency
TimeTexts   == {"23:59", "00:00"}

\* AsyncScheduler.update_reminder_time(time_str) is called
update_reminder_time(t, time_str) ==
    /\ impl = "async"
    /\ FreeSlot(t)
    /\ SetTask(t, [NewTask("update_reminder_time", "set_setting", NULL) EXCEPT !.file = time_str])
    /\ UNCHANGED <<impl, scheduler, store, now, fsm>>

\* update_reminder_frequency(frequency) of either bot is called
update_reminder_frequency(t, frequency) ==
    /\ FreeSlot(t)
    /\ SetTask(t, [NewTask("update_reminder_frequency", "set_setting", NULL) EXCEPT
                      !.file = Str(frequency)])
    /\ UNCHANGED <<impl, scheduler, store, now, fsm>>

\* the settings key an update writes
SettingKey(frame) ==
    IF frame.op = "update_reminder_time" THEN "reminder_time" ELSE "reminder_frequency"

\* db.set_setting(key, value): INSERT OR REPLACE INTO settings, or an exception
\* that is logged (it returns False, which the caller does not look at)
set_setting(t) ==
    /\ At(t, "set_setting")
    /\ \/ /\ settings' = [settings EXCEPT ![SettingKey(tasks[t])] = tasks[t].file]
          /\ SetTask(t, [tasks[t] EXCEPT !.ok = TRUE, !.pc = "get_frequency"])
       \/ /\ settings' = settings
          /\ SetTask(t, [tasks[t] EXCEPT !.ok = FALSE, !.pc = "get_frequency"])
    /\ UNCHANGED <<impl, store, now, fsm, jobs, batch, outbox>>

\* setup_reminder_scheduler: frequency = int(get_setting('reminder_frequency') or 1);
\* get_setting returns None when its SELECT raises
setup_get_frequency(t) ==
    /\ At(t, "get_frequency")
    /\ \E frequency \in {ParseInt(settings.reminder_frequency), 1} :
          SetTask(t, [tasks[t] EXCEPT !.base = frequency, !.pc = "get_time"])
    /\ UNCHANGED <<impl, scheduler, store, now, fsm>>

\* setup_reminder_scheduler: reminder_time = get_setting('reminder_time') or '17:30';
\* the time is parsed, the trigger built and the job added with replace_existing=True;
\* an exception on the way is logged and the job store stays as it was
setup_add_job(t) ==
    /\ At(t, "get_time")
    /\ \E reminder_time \in {settings.reminder_time, "17:30"} :
          /\ jobs' = IF ParseTime(reminder_time) = NULL
                     THEN jobs
                     ELSE add_job("debt_reminders",
                                  CronTrigger(ParseTime(reminder_time), tasks[t].base), TRUE)
          /\ SetTask(t, [tasks[t] EXCEPT !.reason = reminder_time, !.pc = "done"])
    /\ UNCHANGED <<impl, store, now, fsm, settings, batch, outbox>>

\* nothing else is in progress: reconfigurations, runs of the job and clicks
\* are taken one after the other here
NextSchedule ==
    \/ \E m \in {1, MinutesPerDay - 1} : Advance(m)
    \/ Calm /\ send_reminders
    \/ send_debt_reminder
    \/ update_reminder_sent
    \/ send_reminders_return
    \/ \E u \in Users, d \in DebtIds : Calm /\ handle_remind_later(u, d)
    \/ \E t \in TaskIds, text \in TimeTexts : Calm /\ update_reminder_time(t, text)
    \/ \E t \in TaskIds, f \in Frequencies : Calm /\ update_reminder_frequency(t, f)
    \/ \E t \in TaskIds : set_setting(t)
    \/ \E t \in TaskIds : setup_get_frequency(t)
    \/ \E t \in TaskIds : setup_add_job(t)
    \/ \E t \in TaskIds : Return(t)

SpecSchedule == InitReminder /\ [][NextSchedule]_vars

\* ------------------------------------------ the panel's settings form
\* show_settings of the panel, "Сохранить настройки" pressed: set_setting for
\* reminder_frequency, then for reminder_time, each persisting its value or
\* failing with False; the panel reports success or the error and returns.
\* The bot's scheduler is not called.
show_settings(t, new_frequency, new_time) ==
    /\ FreeSlot(t)
    /\ \E saved_frequency, saved_time \in BOOLEAN :
          /\ settings' = [settings EXCEPT
                             !.reminder_frequency =
                                 IF saved_frequency THEN Str(new_frequency) ELSE @,
                             !.reminder_time = IF saved_time THEN new_time ELSE @]
          /\ SetTask(t, [NewTask("show_settings", "done", NULL) EXCEPT
                            !.base = new_frequency, !.file = new_time,
                            !.ok = saved_frequency /\ saved_time])
    /\ UNCHANGED <<impl, store, now, fsm, jobs, batch, outbox>>

\* the reminder job running day by day while the panel saves its form
NextSettings ==
    \/ \E m \in {1, MinutesPerDay - 1} : Advance(m)
    \/ Calm /\ send_reminders
    \/ send_debt_reminder
    \/ update_reminder_sent
    \/ send_reminders_return
    \/ \E t \in TaskIds, f \in Frequencies, text \in TimeTexts :
          Calm /\ show_settings(t, f, text)
    \/ \E t \in TaskIds : Return(t)

SpecSettings == InitReminder /\ [][NextSettings]_vars

\* ------------------------------------------------------------ properties
\* frame t takes a step
Steps(t) == tasks'[t] # tasks[t]

CreateDebtPcs == DebtInsertPcs \cup {"s_debt_record"}
DebtLookupPcs == {"debt_dup", "s_debt_dup", "s_debt_op"}
ConfirmWritePcs == {"confirm_update", "s_confirm_update"}
ConfirmPcs == {"confirm_update", "s_confirm_op", "s_confirm_update", "s_confirm_record", "close_debt"}

ActivePayments(d) ==
    {p \in DOMAIN payments : payments[p].debt_id = d /\ payments[p].status \in {"Pending", "Confirmed"}}

\* C1: confirming a payment and closing its debt are one atomic step: in no
\* reachable state is a payment Confirmed while its debt is still Open.
C1_ConfirmedPaymentHasClosedDebt ==
    \A p \in DOMAIN payments :
        (payments[p].status = "Confirmed" /\ payments[p].debt_id \in DOMAIN debts)
            => debts[payments[p].debt_id].status # "Open"

\* C2: after any interleaving of create_payment, confirm_payment and
\* cancel_payment every debt has at most one payment that is Pending or Confirmed.
C2_OneActivePaymentPerDebt ==
    \A d \in DebtIds : Cardinality(ActivePayments(d)) <= 1

\* C3: Confirmed and Cancelled are terminal: a cancel_payment that found the
\* payment Confirmed and a confirm_payment that found it Cancelled change
\* neither the payment nor the debt and do not return success.
C3_TerminalStatesRejectTransitions ==
    [][\A t \in TaskIds :
          ( /\ Steps(t)
            /\ \/ tasks[t].pc = "cancel_update" /\ tasks[t].seen = "Confirmed"
               \/ tasks[t].pc \in ConfirmPcs /\ tasks[t].seen = "Cancelled" )
          => /\ payments' = payments
             /\ debts' = debts
             /\ ~tasks'[t].ok]_vars

\* C4: of two confirm_payment calls that both read the payment as Pending,
\* exactly one writes Pending -> Confirmed: the call that comes second to the
\* write finds the payment Confirmed, writes nothing and returns success.
C4_RacingConfirmsWriteOnce ==
    [][\A t \in TaskIds :
          ( /\ Steps(t)
            /\ tasks[t].pc \in ConfirmWritePcs
            /\ tasks[t].seen = "Pending"
            /\ HasPayment(tasks[t].pid)
            /\ payments[tasks[t].pid].status = "Confirmed" )
          => /\ payments' = payments
             /\ tasks'[t].pc # "done" \/ tasks'[t].ok]_vars

\* C5: when a confirm and a cancel race on a Pending payment the first write
\* is final: the call that writes second (it read Pending, the payment is by
\* now Cancelled resp. Confirmed) changes nothing and reports no success, and
\* no payment is left Cancelled after its confirmation closed the debt.
C5_FirstOfConfirmAndCancelWins ==
    [][/\ \A t \in TaskIds :
            ( /\ Steps(t)
              /\ tasks[t].seen = "Pending"
              /\ HasPayment(tasks[t].pid)
              /\ \/ tasks[t].pc = "confirm_update" /\ payments[tasks[t].pid].status = "Cancelled"
                 \/ tasks[t].pc = "cancel_update" /\ payments[tasks[t].pid].status = "Confirmed" )
            => /\ payments' = payments
               /\ ~tasks'[t].ok
       /\ \A p \in DOMAIN payments' :
            ( /\ payments'[p].status = "Cancelled"
              /\ payments'[p].confirmed_at # NULL
              /\ payments'[p].debt_id \in DOMAIN debts' )
            => debts'[payments'[p].debt_id].status # "Closed"]_vars

\* C6: create_debt called again, after an identical create_debt went through
\* and less than five minutes after it, inserts no second row: it never
\* reaches its INSERT while an Open debt of the same (debtor, creditor,
\* amount, description), present before the call began, is inside the window.
C6_SecondCreateInWindowInsertsNothing ==
    [][\A t \in TaskIds :
          (Steps(t) /\ tasks[t].pc \in {"debt_insert", "s_debt_insert"})
          => ~ \E d \in DOMAIN debts :
                 /\ d < tasks[t].base
                 /\ SameDebt(d, tasks[t].args)
                 /\ debts[d].status = "Open"
                 /\ now - debts[d].created_at < MinutesWindow]_vars

\* C7: two identical create_debt requests in flight together leave one row:
\* a request does not insert once a racing identical request has inserted
\* its row (a row for the same tuple that appeared after this request began).
C7_RacingCreatesInsertOnce ==
    [][\A t \in TaskIds :
          (Steps(t) /\ tasks[t].pc \in {"debt_insert", "s_debt_insert"})
          => ~ \E d \in DOMAIN debts :
                 /\ d >= tasks[t].base
                 /\ SameDebt(d, tasks[t].args)
                 /\ debts[d].status = "Open"]_vars

\* C8: an id that create_debt hands back from one of its duplicate lookups
\* (the window lookup, the operation record) designates a debt row that
\* exists and is Open at the time of return.
C8_ReturnedDebtIsOpen ==
    [][\A t \in TaskIds :
          ( /\ tasks[t].pc \in DebtLookupPcs
            /\ tasks'[t].pc \notin CreateDebtPcs
            /\ tasks'[t].did # NULL )
          => /\ tasks'[t].did \in DOMAIN debts'
             /\ debts'[tasks'[t].did].status = "Open"]_vars

\* C9: when cancel_payment returns success the debt is Open, and an id that
\* create_payment returns never designates a Cancelled payment.
C9_CancelKeepsDebtOpen ==
    [][\A t \in TaskIds :
          /\ ( /\ tasks[t].pc \in {"cancel_select", "cancel_update"}
               /\ tasks'[t].pc = "state_clear"
               /\ tasks'[t].ok
               /\ tasks[t].did \in DOMAIN debts' )
             => debts'[tasks[t].did].status = "Open"
          /\ ( /\ tasks[t].pc \in PaymentInsertPcs \cup {"s_payment_record"}
               /\ tasks'[t].pc = "state_clear"
               /\ tasks'[t].rid \in DOMAIN payments' )
             => payments'[tasks'[t].rid].status # "Cancelled"]_vars

\* C10: confirming again a payment whose confirmation is complete (payment
\* Confirmed, debt Closed) returns success and changes no stored field.
C10_ReconfirmChangesNothing ==
    [][\A t \in TaskIds :
          ( /\ Steps(t)
            /\ tasks[t].op = "handle_confirm_payment"
            /\ tasks[t].seen = "Confirmed"
            /\ tasks[t].did \in DOMAIN debts
            /\ debts[tasks[t].did].status = "Closed" )
          => /\ debts' = debts
             /\ payments' = payments
             /\ tasks[t].ok]_vars

\* C11: cancel_payment applied to a payment that is already Cancelled returns
\* success and changes nothing: status, cancelled_at and cancel_reason stay
\* those of the first cancellation, whatever reason the second call carries.
C11_CancelOfCancelledChangesNothing ==
    [][\A t \in TaskIds :
          ( /\ Steps(t)
            /\ tasks[t].pc \in {"cancel_select", "cancel_update"}
            /\ HasPayment(tasks[t].pid)
            /\ payments[tasks[t].pid].status = "Cancelled" )
          => /\ payments' = payments
             /\ tasks'[t].ok]_vars

ReviewOps ==
    {"handle_confirm_payment", "handle_cancel_payment", "handle_cancel_reason_input",
     "handle_dispute_payment"}

\* the creditor of the debt a payment is for
CreditorOf(pid) == debts[payments[pid].debt_id].creditor_id

\* C12: a confirm or cancel request of a user who is not the creditor of the
\* payment's debt changes no payment and no debt and opens no rejection
\* dialogue; a payment leaves Pending only in a step of its creditor's request.
C12_OnlyCreditorReviews ==
    [][/\ \A t \in TaskIds :
            ( /\ Steps(t)
              /\ tasks'[t].op \in ReviewOps
              /\ HasPayment(tasks'[t].pid)
              /\ payments[tasks'[t].pid].debt_id \in DOMAIN debts
              /\ tasks'[t].user # CreditorOf(tasks'[t].pid) )
            => /\ payments' = payments
               /\ debts' = debts
       /\ \A u \in Users :
            ( /\ fsm'[u].state = "entering_cancel_reason"
              /\ HasPayment(fsm'[u].payment_id) )
            => payments[fsm'[u].payment_id].creditor_id = u
       /\ \A p \in DOMAIN payments :
            ( /\ payments[p].status = "Pending"
              /\ p \in DOMAIN payments'
              /\ payments'[p].status # "Pending" )
            => \E t \in TaskIds : Steps(t) /\ tasks[t].user = payments[p].creditor_id]_vars

\* a request of somebody else was turned away and the payment is still Pending
C12_Witness ==
    \E t \in TaskIds :
        /\ tasks[t].op \in ReviewOps
        /\ tasks[t].seen = "denied"
        /\ HasPayment(tasks[t].pid)
        /\ tasks[t].user # payments[tasks[t].pid].creditor_id
        /\ payments[tasks[t].pid].status = "Pending"

\* reasons that are no reason: no text at all, the empty text, blanks only
Blank == {NoText, "", " "}

\* C13: a rejection whose reason is empty, blank or absent changes nothing (the
\* payment stays Pending, cancel_reason and cancelled_at stay unset); a
\* rejection with a real reason that reaches a Pending payment sets it
\* Cancelled with that reason and leaves the debt as it is (Open); no payment
\* is ever Cancelled with a blank reason.
C13_CancelNeedsReason ==
    [][/\ \A t \in TaskIds :
            ( /\ Steps(t)
              /\ tasks'[t].op = "handle_cancel_reason_input"
              /\ tasks'[t].pc # "state_clear" \/ tasks'[t].seen # "missing"
              /\ tasks'[t].reason \in Blank )
            => /\ payments' = payments
               /\ debts' = debts
               /\ fsm' = fsm
               /\ tasks'[t].pc = "done" /\ ~tasks'[t].ok
       /\ \A t \in TaskIds :
            ( /\ Steps(t)
              /\ tasks[t].pc = "cancel_update"
              /\ tasks[t].reason \notin Blank
              /\ HasPayment(tasks[t].pid)
              /\ payments[tasks[t].pid].status = "Pending" )
            => /\ payments' = [payments EXCEPT ![tasks[t].pid].status = "Cancelled",
                                               ![tasks[t].pid].cancelled_at = now,
                                               ![tasks[t].pid].cancel_reason = tasks[t].reason]
               /\ debts' = debts
               /\ tasks'[t].ok
       /\ \A p \in DOMAIN payments' :
            /\ payments'[p].status = "Pending"
                 => payments'[p].cancel_reason = NoText /\ payments'[p].cancelled_at = NULL
            /\ payments'[p].status = "Cancelled" => payments'[p].cancel_reason \notin Blank]_vars

\* a blank reason was turned away and the payment is Pending, nothing recorded
C13_Witness ==
    \E t \in TaskIds :
        /\ tasks[t].op = "handle_cancel_reason_input"
        /\ tasks[t].seen = "rejected"
        /\ HasPayment(tasks[t].pid)
        /\ payments[tasks[t].pid].status = "Pending"
        /\ payments[tasks[t].pid].cancel_reason = NoText

TerminalDebt == {"Closed", "Disputed"}

\* C14: Closed and Disputed are terminal debt states: no step changes the
\* status of a debt that has left Open, and a close_debt or dispute_debt that
\* meets such a debt does not report success.
C14_TerminalDebtStates ==
    [][/\ \A d \in DOMAIN debts :
            (debts[d].status \in TerminalDebt /\ d \in DOMAIN debts')
            => debts'[d].status = debts[d].status
       /\ \A t \in TaskIds :
            ( /\ Steps(t)
              /\ tasks[t].pc \in {"close_debt", "s_dispute_debt"}
              /\ tasks[t].did \in DOMAIN debts
              /\ debts[tasks[t].did].status \in TerminalDebt )
            => ~tasks'[t].ok]_vars

\* C15: no debt is ever stored with debtor = creditor or with amount <= 0,
\* whatever the conversation inputs (a select_user callback that names the
\* acting user included) and whatever create_debt is called with.
C15_NoSelfDebtNoNonPositiveAmount ==
    \A d \in DOMAIN debts :
        /\ debts[d].debtor_id # debts[d].creditor_id
        /\ debts[d].amount > 0

\* C16: create_payment for a debt that does not exist inserts no payment row
\* and returns no payment id, also when the debt was removed after the payment
\* session had started.
C16_NoPaymentForMissingDebt ==
    [][\A t \in TaskIds :
          ( /\ Steps(t)
            /\ tasks[t].pc \in PaymentInsertPcs \cup {"s_payment_record"}
            /\ tasks[t].did \notin DOMAIN debts )
          => /\ payments' = payments
             /\ tasks'[t].rid = NULL]_vars

\* the users a recorded operation names: the acting user and the user ids in
\* its operation_data
UsersOfOperation(r) ==
    {r.user_id} \cup {r.operation_data[k] :
                         k \in DOMAIN r.operation_data \cap {"debtor_id", "creditor_id"}}

\* C17: right after delete_user_cascade(u) no row of debts, payments or
\* processed_operations refers to u, neither as debtor, creditor or acting
\* user nor inside the payload of a recorded operation.
C17_CascadeLeavesNoReference ==
    [][\A u \in users \ users' :
          /\ \A d \in DOMAIN debts' : u \notin {debts'[d].debtor_id, debts'[d].creditor_id}
          /\ \A p \in DOMAIN payments' :
                u \notin {payments'[p].debtor_id, payments'[p].creditor_id}
          /\ \A r \in processed_operations' : u \notin UsersOfOperation(r)]_vars

\* u's rows in the three tables
RowsOf(u) ==
    <<{d \in DOMAIN debts : u \in {debts[d].debtor_id, debts[d].creditor_id}},
      {p \in DOMAIN payments : u \in {payments[p].debtor_id, payments[p].creditor_id}},
      {r \in processed_operations : r.user_id = u}>>

\* C18: delete_user_cascade is all-or-nothing: every step of the call leaves
\* the store as it is, except the commit, which removes the user and all the
\* rows the cascade covers at once and returns True; a call that ends in
\* failure has changed nothing.
C18_CascadeAllOrNothing ==
    [][\A t \in TaskIds :
          (Steps(t) /\ tasks[t].op = "delete_user_cascade")
          => IF tasks'[t].pc = "done" /\ tasks'[t].ok
             THEN LET u == tasks[t].user IN
                  /\ users' = users \ {u}
                  /\ \A d \in DOMAIN debts :
                        IF u \in {debts[d].debtor_id, debts[d].creditor_id}
                        THEN d \notin DOMAIN debts'
                        ELSE d \in DOMAIN debts' /\ debts'[d] = debts[d]
                  /\ \A p \in DOMAIN payments :
                        IF u \in {payments[p].debtor_id, payments[p].creditor_id}
                        THEN p \notin DOMAIN payments'
                        ELSE p \in DOMAIN payments' /\ payments'[p] = payments[p]
                  /\ processed_operations' = {r \in processed_operations : r.user_id # u}
             ELSE store' = store]_vars

\* a cascade for a user who has rows in all three tables got past its first
\* DELETEs and then failed: the user and the rows are all still there
C18_Witness ==
    \E t \in TaskIds :
        /\ tasks[t].op = "delete_user_cascade"
        /\ tasks[t].pc = "done"
        /\ ~tasks[t].ok
        /\ tasks[t].user \in users
        /\ RowsOf(tasks[t].user)[1] # {}
        /\ RowsOf(tasks[t].user)[2] # {}
        /\ RowsOf(tasks[t].user)[3] # {}

\* C19: recording an operation whose fingerprint already has a (live) record
\* keeps the result id recorded first: no step replaces the result_id stored
\* under an operation_hash, so every later lookup returns the first writer's.
C19_FirstRecordedResultKept ==
    [][\A r \in processed_operations :
          r.expires_at > now
          => \A r2 \in processed_operations' :
                r2.operation_hash = r.operation_hash => r2.result_id = r.result_id]_vars

\* C20: check_operation_processed(hash) returns a record exactly while one
\* with that hash has its expires_at in the future: never a record whose
\* expires_at has passed, whether or not the cleanup job has run since.
C20_LookupSeesLiveRecordsOnly ==
    [][\A t \in TaskIds :
          (Steps(t) /\ tasks'[t].op = "check_operation_processed")
          => LET c == CHOOSE c \in OperationCalls : c[1] = tasks'[t].reason
                 live == {r \in processed_operations :
                            /\ r.operation_hash = create_operation_hash(c[1], c[2], c[3])
                            /\ r.expires_at > now} IN
             IF live = {}
             THEN tasks'[t].seen = "None"
             ELSE /\ tasks'[t].seen = "row"
                  /\ tasks'[t].rid \in {r.result_id : r \in live}]_vars

\* C21: create_operation_hash depends on the operation type, the user and the
\* set of (key, value) parameters only: however the keyword arguments were
\* ordered in the calls and however often the call was repeated, the records
\* of one operation carry one fingerprint (so the table holds one record of it).
C21_HashIgnoresParameterOrder ==
    \A r1, r2 \in processed_operations :
        (/\ r1.operation_type = r2.operation_type
         /\ r1.user_id = r2.user_id
         /\ r1.operation_data = r2.operation_data)
        => r1.operation_hash = r2.operation_hash

\* a lookup that passed description first (neither the order of the call in
\* create_debt nor the sorted order) has found the one record of the operation
C21_Witness ==
    \E t \in TaskIds :
        /\ tasks[t].op = "check_operation_processed"
        /\ tasks[t].reason = "debt_creation"
        /\ tasks[t].file = "description"
        /\ tasks[t].seen = "row"
        /\ Cardinality({r \in processed_operations : r.operation_type = "debt_creation"}) = 1

\* C22: a run of the cleanup job that commits removes exactly the records whose
\* expires_at is not later than now and returns their number; a run that fails
\* returns 0 and removes nothing; either way users, debts and payments are
\* untouched and the job returns to the scheduler.
C22_CleanupRemovesExactlyExpired ==
    [][\A t \in TaskIds :
          (Steps(t) /\ tasks'[t].op = "cleanup_expired_operations") =>
              /\ IF tasks'[t].ok
                 THEN /\ processed_operations' =
                            {r \in processed_operations : r.expires_at = NULL \/ r.expires_at > now}
                      /\ tasks'[t].rid =
                            Cardinality(processed_operations) - Cardinality(processed_operations')
                 ELSE /\ processed_operations' = processed_operations
                      /\ tasks'[t].rid = 0
              /\ UNCHANGED <<users, debts, payments>>
              /\ tasks'[t].pc = "done"]_vars

\* a run has removed one expired record and left a live one in the table
C22_Witness ==
    \E t \in TaskIds :
        /\ tasks[t].op = "cleanup_expired_operations"
        /\ tasks[t].ok
        /\ tasks[t].rid = 1
        /\ \E r \in processed_operations : r.expires_at > now
        /\ DOMAIN debts # {} /\ DOMAIN payments # {}

\* C23: in every reachable state the debts get_debts_for_reminder returns are
\* Open and were never reminded of or were last reminded of at least 24 hours
\* ago: no Closed or Disputed debt and no debt inside the cooldown is returned.
C23_ReminderQueryReturnsDueOpenDebts ==
    \A q \in DebtsForReminder :
        \A i \in DOMAIN q :
            /\ debts[q[i]].status = "Open"
            /\ (debts[q[i]].last_reminder = NULL
                \/ now - debts[q[i]].last_reminder >= MinutesPerDay)

\* the query returns a debt while another open debt is inside its cooldown
C23_Witness ==
    /\ batch.pc = "idle"
    /\ \E q \in DebtsForReminder : q # << >>
    /\ \E d \in DOMAIN debts :
          /\ debts[d].status = "Open"
          /\ debts[d].last_reminder # NULL
          /\ now - debts[d].last_reminder < MinutesPerDay

\* the debts that are due for a reminder: Open, never reminded of or last
\* reminded of at least 24 hours ago
DueDebts ==
    {d \in DOMAIN debts :
        /\ debts[d].status = "Open"
        /\ (debts[d].last_reminder = NULL \/ now - debts[d].last_reminder >= MinutesPerDay)}

Range(q) == {q[i] : i \in DOMAIN q}

\* C24: a firing of the reminder job takes the debts that are due and no
\* other (unless its query fails and it takes none); within the run no debt is
\* notified of twice, the reminders go out in ascending order of the debts'
\* creation time, and a debt is stamped only after its reminder was attempted.
C24_RemindersInCreationOrder ==
    [][/\ (batch.pc = "idle" /\ batch'.pc # "idle" /\ batch'.queue # << >>)
            => Range(batch'.queue) = DueDebts
       /\ Range(batch'.sent) \subseteq Range(batch'.queue)
       /\ \A i, j \in DOMAIN batch'.sent :
             i < j => /\ batch'.sent[i] # batch'.sent[j]
                      /\ debts[batch'.sent[i]].created_at <= debts[batch'.sent[j]].created_at
       /\ Range(batch'.marked) \subseteq Range(batch'.attempted)]_vars

\* C25: a run of the reminder job ends only after it has tried to notify of
\* every debt on its list, whatever failed on the way, and it has called
\* update_reminder_sent for every debt whose reminder went out.
C25_FailureDoesNotStopBatch ==
    batch.pc = "done" =>
        /\ batch.attempted = batch.queue
        /\ Range(batch.sent) \subseteq Range(batch.marked)

\* a run over two debts has ended: the first debt's message failed, the
\* second debt's went out and the debt was stamped
C25_Witness ==
    /\ batch.pc = "done"
    /\ Len(batch.queue) = 2
    /\ batch.sent = <<batch.queue[2]>>
    /\ batch.queue[2] \in Range(batch.marked)
    /\ debts[batch.queue[2]].last_reminder = now

\* C26: whenever the reminder job hands a reminder of a debt to Telegram, the
\* previous reminder of that debt, if there was one, went out at least 24
\* hours before.
C26_RemindersADayApart ==
    [][\A d \in DebtIds :
          (outbox'[d] # outbox[d] /\ outbox[d] # NULL) => now - outbox[d] >= MinutesPerDay]_vars

\* the reminder jobs in the job store
ReminderJobs(store_of_jobs) == {j \in store_of_jobs : j.id = "debt_reminders"}

\* C27: when update_reminder_frequency or update_reminder_time returns, one
\* reminder job is registered, its trigger is the one built from the settings
\* as they are persisted now, and, if set_setting succeeded, the setting holds
\* the value of the call.
C27_SettingAndTriggerAgree ==
    [][\A t \in TaskIds :
          (/\ Steps(t)
           /\ tasks'[t].pc = "done"
           /\ tasks'[t].op \in {"update_reminder_time", "update_reminder_frequency"})
          => /\ Cardinality(ReminderJobs(jobs')) = 1
             /\ \A j \in ReminderJobs(jobs') :
                   j.trigger = CronTrigger(ParseTime(settings'.reminder_time),
                                           ParseInt(settings'.reminder_frequency))
             /\ tasks'[t].ok => settings'[SettingKey(tasks'[t])] = tasks'[t].file]_vars

\* the handlers that call db.create_debt or db.create_payment for a session
FinalizeOps == {"create_debt_final", "process_payment_receipt", "handle_file"}

\* C28: the input that completes a user's session starts the creation once:
\* at no time are two creations of the same session under way (the session
\* would have been cleared before the second delivery was looked at).
C28_FinalizeCreatesOnce ==
    \A u \in Users :
        Cardinality({t \in TaskIds : tasks[t].op \in FinalizeOps /\ tasks[t].user = u}) <= 1

\* --------------------------------------------- one session after another
\* get_user_debts: FROM debts d JOIN users u1 ... JOIN users u2 ...
\* WHERE d.debtor_id = ? AND d.status = 'Open' ORDER BY d.created_at DESC
get_user_debts(u) ==
    OrderByCreatedAt(
        {d \in DOMAIN debts :
            /\ debts[d].debtor_id \in users /\ debts[d].creditor_id \in users
            /\ debts[d].debtor_id = u
            /\ debts[d].status = "Open"},
        FALSE)

\* callback pay_all_debts (the creditor list and the total are kept for the
\* message texts only)
handle_pay_all_debts(u) ==
    /\ Quiet
    /\ impl = "async"
    /\ \E listed \in get_user_debts(u) :
         /\ listed # << >>
         /\ fsm' = [fsm EXCEPT ![u] = [NoSession EXCEPT !.debt_ids = listed,
                                                       !.state = "pay_uploading_receipt"]]
    /\ UNCHANGED <<impl, scheduler, store, now, tasks>>

\* callback pay_all_debts
sync_handle_pay_all_debts(u) ==
    /\ Quiet
    /\ impl = "sync"
    /\ \E listed \in get_user_debts(u) :
         /\ listed # << >>
         /\ fsm' = [fsm EXCEPT ![u] = [NoSession EXCEPT !.debt_ids = listed,
                                                       !.state = "waiting_payment_receipt_all"]]
    /\ UNCHANGED <<impl, scheduler, store, now, tasks>>

\* every row the loop may insert has room in the table
RoomForPayments(listed) ==
    nextPaymentId - 1 + Cardinality(PaymentInserters) + Len(listed) <= MaxPayments

\* process_payment_receipt, branch "elif 'debt_ids' in data", up to its loop
process_payment_receipt_all(t, u) ==
    /\ impl = "async"
    /\ fsm[u].state = "pay_uploading_receipt"
    /\ fsm[u].debt_id = NULL
    /\ fsm[u].debt_ids # << >>
    /\ FreeSlot(t)
    /\ RoomForPayments(fsm[u].debt_ids)
    /\ SetTask(t, [NewTask("process_payment_receipt", "pay_all_next", u) EXCEPT
                      !.file = "file", !.queue = fsm[u].debt_ids])
    /\ UNCHANGED <<impl, scheduler, store, now, fsm>>

\* handle_file in state waiting_payment_receipt_all, up to its loop
handle_file_all(t, u) ==
    /\ impl = "sync"
    /\ fsm[u].state = "waiting_payment_receipt_all"
    /\ FreeSlot(t)
    /\ RoomForPayments(fsm[u].debt_ids)
    /\ SetTask(t, [NewTask("handle_file", "pay_all_next", u) EXCEPT
                      !.file = "file", !.queue = fsm[u].debt_ids])
    /\ UNCHANGED <<impl, scheduler, store, now, fsm>>

\* one turn of "for debt_id in debt_ids": get_debt, then create_payment for a
\* debt that is found; after the last turn the async handler clears the session
\* in either case, the sync handler only when a payment was made
pay_all_next(t) ==
    /\ At(t, "pay_all_next")
    /\ LET frame == tasks[t]
           did == Head(frame.queue)
           rest == [frame EXCEPT !.queue = Tail(frame.queue)] IN
         IF frame.queue = << >>
         THEN SetTask(t, [frame EXCEPT !.pc = IF impl = "async" \/ frame.rid # NULL
                                              THEN "state_clear" ELSE "done"])
         ELSE IF ~get_debt(did)
         THEN SetTask(t, rest)
         ELSE SetTask(t, [rest EXCEPT
                            !.did = did,
                            !.args = <<frame.user, debts[did].creditor_id,
                                       debts[did].amount, debts[did].description>>,
                            !.pc = IF impl = "async" THEN "payment_dup" ELSE "s_payment_dup"])
    /\ UNCHANGED <<impl, scheduler, store, now, fsm>>

\* user 1 owes user 2 one lunch a minute, nothing is paid yet
InitSession ==
    /\ impl \in {"async", "sync"}
    /\ users = Users
    /\ now = ClockStart
    /\ debts = [d \in DebtIds |->
                  [DebtRow(1, 2, 10, "lunch") EXCEPT !.created_at = ClockStart - MaxDebts + d - 1]]
    /\ payments = << >>
    /\ processed_operations = {}
    /\ nextDebtId = MaxDebts + 1
    /\ nextPaymentId = 1
    /\ fsm = [u \in Users |-> NoSession]
    /\ tasks = [t \in TaskIds |-> IdleTask]
    /\ InitScheduler

\* the flows of both bots: user 2 enters debts and reviews payments, user 1
\* pays; a button that starts a flow is pressed while nothing or a handler of
\* the same user is running, the other messages are handled one at a time
\* nothing but handlers of user u is running
Alone(u) == \A t \in TaskIds : tasks[t].pc = "idle" \/ tasks[t].user = u

NextSession ==
    \/ \E u \in Creditors : Alone(u) /\ handle_cmd_new_debt(u)
    \/ \E u \in Creditors, target \in Debtors : Calm /\ handle_user_selection(u, target)
    \/ \E u \in Creditors : Calm /\ handle_amount_input(u, "10")
    \/ \E u \in Creditors : Calm /\ handle_description_input(u, "lunch")
    \/ \E u \in Debtors, did \in DebtIds : Alone(u) /\ handle_pay_debt(u, did)
    \/ \E t \in TaskIds, u \in Debtors : Calm /\ process_payment_receipt(t, u)
    \/ \E u \in Debtors : Alone(u) /\ handle_pay_all_debts(u)
    \/ \E t \in TaskIds, u \in Debtors : Calm /\ process_payment_receipt_all(t, u)
    \/ \E u \in Creditors, pid \in PaymentIds : Alone(u) /\ handle_cancel_payment(u, pid)
    \/ \E t \in TaskIds, u \in Creditors : Calm /\ handle_cancel_reason_input(t, u, "blurry")
    \/ \E u \in Users : Calm /\ handle_cancel(u)
    \/ \E u \in Creditors, target \in Debtors : Alone(u) /\ sync_handle_user_selection(u, target)
    \/ \E u \in Creditors : Calm /\ handle_debt_amount_input(u, "10")
    \/ \E u \in Debtors, did \in DebtIds : Alone(u) /\ sync_handle_pay_debt(u, did)
    \/ \E t \in TaskIds, u \in Debtors : Calm /\ handle_file(t, u)
    \/ \E u \in Debtors : Alone(u) /\ sync_handle_pay_all_debts(u)
    \/ \E t \in TaskIds, u \in Debtors : Calm /\ handle_file_all(t, u)
    \/ \E t \in TaskIds : pay_all_next(t)
    \/ \E t \in TaskIds : create_payment_check(t)
    \/ \E t \in TaskIds : create_payment_insert(t)
    \/ \E t \in TaskIds : cancel_payment_select(t)
    \/ \E t \in TaskIds : cancel_payment_update(t)
    \/ \E t \in TaskIds : sync_create_payment_check(t)
    \/ \E t \in TaskIds : sync_create_payment_processed(t)
    \/ \E t \in TaskIds : sync_create_payment_insert(t)
    \/ \E t \in TaskIds : sync_create_payment_record(t)
    \/ \E t \in TaskIds : state_clear(t)
    \/ \E t \in TaskIds : Return(t)

SpecSession == InitSession /\ [][NextSession]_vars

\* ------------------------------------------------------ the amount prompt
\* message in state entering_amount that float() refuses or that is <= 0:
\* answered with an error text, nothing stored
handle_amount_input_rejected(t, u, text) ==
    /\ impl = "async"
    /\ fsm[u].state = "entering_amount"
    /\ ParseAmount(text) = NULL \/ NotAboveZero(ParseAmount(text))
    /\ FreeSlot(t)
    /\ SetTask(t, [NewTask("handle_amount_input", "done", u) EXCEPT
                      !.reason = text, !.seen = "rejected"])
    /\ UNCHANGED <<impl, scheduler, store, now, fsm>>

\* text in state waiting_debt_amount that raises ValueError: ERROR_INVALID_AMOUNT
handle_debt_amount_input_rejected(t, u, text) ==
    /\ impl = "sync"
    /\ fsm[u].state = "waiting_debt_amount"
    /\ ParseAmount(text) = NULL \/ NotAboveZero(ParseAmount(text))
    /\ FreeSlot(t)
    /\ SetTask(t, [NewTask("handle_debt_amount_input", "done", u) EXCEPT
                      !.reason = text, !.seen = "rejected"])
    /\ UNCHANGED <<impl, scheduler, store, now, fsm>>

\* what a user may type at the prompt
AmountInputs == {"10", "0", "-5", "abc", "nan"}

\* user 2 enters debts of user 1 in either bot, typing anything as the amount
NextAmount ==
    \/ \E u \in Creditors : handle_cmd_new_debt(u)
    \/ \E u \in Creditors, target \in Debtors : Calm /\ handle_user_selection(u, target)
    \/ \E u \in Creditors, text \in AmountInputs : handle_amount_input(u, text)
    \/ \E t \in TaskIds, u \in Creditors, text \in AmountInputs :
            handle_amount_input_rejected(t, u, text)
    \/ \E u \in Creditors, text \in {"-", "lunch"} : handle_description_input(u, text)
    \/ \E t \in TaskIds, u \in Creditors : Calm /\ handle_skip_receipt(t, u)
    \/ \E u \in Creditors, target \in Debtors : sync_handle_user_selection(u, target)
    \/ \E u \in Creditors, text \in AmountInputs : handle_debt_amount_input(u, text)
    \/ \E t \in TaskIds, u \in Creditors, text \in AmountInputs :
            handle_debt_amount_input_rejected(t, u, text)
    \/ \E t \in TaskIds, u \in Creditors, x \in Descriptions :
            Calm /\ sync_create_debt_final(t, u, x)
    \/ \E t \in TaskIds : create_debt_check(t)
    \/ \E t \in TaskIds : create_debt_insert(t)
    \/ \E t \in TaskIds : sync_create_debt_check(t)
    \/ \E t \in TaskIds : sync_create_debt_processed(t)
    \/ \E t \in TaskIds : sync_create_debt_insert(t)
    \/ \E t \in TaskIds : sync_create_debt_record(t)
    \/ \E t \in TaskIds : state_clear(t)
    \/ \E t \in TaskIds : Return(t)

SpecAmount == Init /\ [][NextAmount]_vars

\* --------------------------------------------- a lookup that cannot be made
\* create_debt, first statement, when the SELECT raises: check_duplicate_debt
\* logs the error and returns None, create_debt goes on
create_debt_check_fails(t) ==
    /\ At(t, "debt_dup")
    /\ SetTask(t, [tasks[t] EXCEPT !.seen = "error", !.pc = "debt_insert"])
    /\ UNCHANGED <<impl, scheduler, store, now, fsm>>

\* create_payment, first statement, when the SELECT raises:
\* check_duplicate_payment logs the error and returns None, create_payment goes on
create_payment_check_fails(t) ==
    /\ At(t, "payment_dup")
    /\ SetTask(t, [tasks[t] EXCEPT !.seen = "error", !.pc = "payment_insert"])
    /\ UNCHANGED <<impl, scheduler, store, now, fsm>>

\* the debt and the payment conversation of the async bot over a database whose
\* lookups may fail
NextStorage ==
    \/ \E u \in Creditors : Calm /\ handle_cmd_new_debt(u)
    \/ \E u \in Creditors, target \in Debtors : Calm /\ handle_user_selection(u, target)
    \/ \E u \in Creditors : handle_amount_input(u, "10")
    \/ \E u \in Creditors : handle_description_input(u, "lunch")
    \/ \E t \in TaskIds, u \in Creditors : handle_skip_receipt(t, u)
    \/ \E u \in Debtors, did \in DebtIds : Calm /\ handle_pay_debt(u, did)
    \/ \E t \in TaskIds, u \in Debtors : process_payment_receipt(t, u)
    \/ \E t \in TaskIds : create_debt_check(t)
    \/ \E t \in TaskIds : create_debt_check_fails(t)
    \/ \E t \in TaskIds : create_debt_insert(t)
    \/ \E t \in TaskIds : create_payment_check(t)
    \/ \E t \in TaskIds : create_payment_check_fails(t)
    \/ \E t \in TaskIds : create_payment_insert(t)
    \/ \E t \in TaskIds : state_clear(t)
    \/ \E t \in TaskIds : Return(t)

\* one open debt with its pending payment, the async bot running
InitStorage ==
    /\ InitReview
    /\ impl = "async"

SpecStorage == InitStorage /\ [][NextStorage]_vars

\* ------------------------------------------- a user deleted during a session
\* the debt conversations of both bots while the admin deletes the debtor
NextOrphan ==
    \/ NextAmount
    \/ \E u \in Debtors : delete_user_cascade(u)

SpecOrphan == Init /\ [][NextOrphan]_vars

\* -------------------------------------------- a debt closed during a session
\* the payment conversations of both bots while the admin closes the debt
NextLate ==
    \/ \E u \in Users, did \in DebtIds : handle_pay_debt(u, did)
    \/ \E t \in TaskIds, u \in Users : process_payment_receipt(t, u)
    \/ \E u \in Users, did \in DebtIds : sync_handle_pay_debt(u, did)
    \/ \E t \in TaskIds, u \in Users : handle_file(t, u)
    \/ \E did \in DebtIds : admin_close_open_debt(did)
    \/ \E t \in TaskIds : create_payment_check(t)
    \/ \E t \in TaskIds : create_payment_insert(t)
    \/ \E t \in TaskIds : sync_create_payment_check(t)
    \/ \E t \in TaskIds : sync_create_payment_processed(t)
    \/ \E t \in TaskIds : sync_create_payment_insert(t)
    \/ \E t \in TaskIds : sync_create_payment_record(t)
    \/ \E t \in TaskIds : state_clear(t)
    \/ \E t \in TaskIds : Return(t)

SpecLate == InitPayment /\ [][NextLate]_vars

\* ------------------------------------------------- time passing in a run
\* the clock moves on while the job works through its list (the sends, the
\* pause of 0.1 s after each debt)
Elapse ==
    /\ batch.pc \in {"send", "mark"}
    /\ now + 1 \in ClockPoints
    /\ now' = now + 1
    /\ UNCHANGED <<impl, scheduler, store, fsm, tasks>>

\* the daily firings of the reminder job, each run taking its time
NextDaily ==
    \/ \E m \in {1, MinutesPerDay - 1} : Advance(m)
    \/ Elapse
    \/ send_reminders
    \/ send_debt_reminder
    \/ update_reminder_sent
    \/ send_reminders_return

SpecDaily == InitReminder /\ [][NextDaily]_vars

\* ------------------------------------------------------- the cancel button
\* callback cancel while the reason of a rejection is awaited: answered with
\* "please enter the reason", the session stays
handle_cancel_refused(t, u) ==
    /\ impl = "async"
    /\ fsm[u].state = "entering_cancel_reason"
    /\ FreeSlot(t)
    /\ SetTask(t, [NewTask("handle_cancel", "done", u) EXCEPT !.seen = "refused"])
    /\ UNCHANGED <<impl, scheduler, store, now, fsm>>

\* callback cancel: clear_user_state(user_id)
sync_handle_cancel(u) ==
    /\ Quiet
    /\ impl = "sync"
    /\ fsm[u].state # "none"
    /\ fsm' = [fsm EXCEPT ![u] = NoSession]
    /\ UNCHANGED <<impl, scheduler, store, now, tasks>>

\* the cancel button is pressed at any moment of the flows
NextCancel ==
    \/ NextSession
    \/ \E u \in Users : handle_cancel(u)
    \/ \E u \in Users : sync_handle_cancel(u)
    \/ \E t \in TaskIds, u \in Users : handle_cancel_refused(t, u)

SpecCancel == InitSession /\ [][NextCancel]_vars

\* the states in which a flow of a user begins, and the fields its first
\* handler may store
StartField ==
    [selecting_debtor |-> {}, waiting_debt_amount |-> {"debtor_id"},
     pay_uploading_receipt |-> {"debt_id", "debt_ids"},
     waiting_payment_receipt |-> {"debt_id"},
     waiting_payment_receipt_all |-> {"debt_ids"},
     entering_cancel_reason |-> {"payment_id"}]

\* session s holds nothing but its state and one of the fields F
FreshSession(s, F) ==
    /\ ("debtor_id" \notin F => s.debtor_id = NULL)
    /\ ("debt_id" \notin F => s.debt_id = NULL)
    /\ ("debt_ids" \notin F => s.debt_ids = << >>)
    /\ ("payment_id" \notin F => s.payment_id = NULL)
    /\ (s.debt_id = NULL \/ s.debt_ids = << >>)
    /\ s.amount = NULL /\ s.description = NoText /\ s.file_id = NoText

CancelSignal(u) == handle_cancel(u) \/ sync_handle_cancel(u)

\* the states of the debt and the payment conversations
FlowStates ==
    {"selecting_debtor", "entering_amount", "entering_description", "uploading_receipt",
     "pay_uploading_receipt", "waiting_debt_amount", "waiting_debt_description",
     "waiting_payment_receipt", "waiting_payment_receipt_all"}

Positive(amount) == amount # NULL /\ amount # NaN /\ amount > 0

\* C31: at the amount prompt an input that is no number or not above zero is
\* rejected: the session keeps its state and data, and no amount other than a
\* positive number is stored in a session, passed to create_debt or written to
\* a debt.
C31_OnlyPositiveAmounts ==
    [][/\ \A u \in Users :
            /\ fsm'[u].amount # NULL => Positive(fsm'[u].amount)
            /\ \A t \in TaskIds :
                  (tasks[t].op = "idle" /\ tasks'[t].seen = "rejected" /\ tasks'[t].user = u)
                      => fsm' = fsm
       /\ \A t \in TaskIds :
            tasks'[t].op = "create_debt_final" => Positive(tasks'[t].args[3])
       /\ \A d \in DOMAIN debts' : Positive(debts'[d].amount)]_vars

\* C32: a storage failure inside a ledger operation reaches the caller as a
\* failure: a create_debt or create_payment whose duplicate lookup failed
\* inserts no row and hands no id to its caller.
C32_FailedLookupInsertsNothing ==
    [][\A t \in TaskIds :
          (tasks[t].seen = "error" /\ tasks'[t] # tasks[t] /\ tasks'[t].op # "idle")
              => /\ debts' = debts
                 /\ payments' = payments
                 /\ ~tasks'[t].ok]_vars

\* the state a debt conversation must be in before it enters state s
StateBefore ==
    [entering_amount |-> "selecting_debtor", entering_description |-> "entering_amount",
     uploading_receipt |-> "entering_description",
     waiting_debt_description |-> "waiting_debt_amount"]

\* C33: a debt conversation moves only along counterparty, amount, description,
\* receipt, finalize: each of its states is entered from the state before it
\* only (so selecting a counterparty has effect only while one is asked for),
\* and create_debt is reached only from the last state of a session that holds
\* a counterparty and an amount.
C33_DebtSessionFollowsChain ==
    [][\A u \in Users :
          /\ (fsm'[u].state # fsm[u].state /\ fsm'[u].state \in DOMAIN StateBefore)
                => fsm[u].state = StateBefore[fsm'[u].state]
          /\ \A t \in TaskIds :
                (tasks[t].op = "idle" /\ tasks'[t].op = "create_debt_final"
                    /\ tasks'[t].user = u)
                    => /\ fsm[u].state \in {"uploading_receipt", "waiting_debt_description"}
                       /\ fsm[u].debtor_id # NULL
                       /\ fsm[u].amount # NULL]_vars

\* C34: a create that succeeded for the first time has left a record of
\* processed operations with the fingerprint of the operation and the id it
\* produced (here: the debt a finished create_debt has inserted).
C34_FirstSuccessIsRecorded ==
    \A t \in TaskIds :
        (/\ tasks[t].op = "create_debt_final"
         /\ tasks[t].pc \in {"state_clear", "done"}
         /\ tasks[t].ok
         /\ tasks[t].did # NULL
         /\ tasks[t].did >= tasks[t].base)
            => \E r \in processed_operations :
                  /\ r.operation_hash = DebtCreationHash(tasks[t].args)
                  /\ r.result_id = tasks[t].did

\* C35: the reminder job sends a reminder, and stamps last_reminder, only for
\* a debt that is Open at that moment, also when the debt was closed after the
\* job had selected its list.
C35_RemindersForOpenDebtsOnly ==
    [][\A d \in DOMAIN debts :
          /\ outbox'[d] # outbox[d] => debts[d].status = "Open"
          /\ (d \in DOMAIN debts' /\ debts'[d].last_reminder # debts[d].last_reminder)
                => debts[d].status = "Open"]_vars

\* C36: the reminder job stamps last_reminder of a debt only when the reminder
\* of that debt went out in the same run; after a failed send the debt stays
\* unstamped.
C36_StampOnlyAfterSend ==
    [][\A d \in DOMAIN debts :
          (d \in DOMAIN debts' /\ debts'[d].last_reminder # debts[d].last_reminder)
              => d \in Range(batch.sent)]_vars

\* C37: in every state each debt's debtor and creditor are users, and each
\* payment names a debt that is there and carries that debt's debtor and
\* creditor, also when a user is deleted while a session of somebody else
\* holds that user's id.
C37_ReferencesResolve ==
    /\ \A d \in DOMAIN debts :
          debts[d].debtor_id \in users /\ debts[d].creditor_id \in users
    /\ \A p \in DOMAIN payments :
          /\ payments[p].debt_id \in DOMAIN debts
          /\ payments[p].debtor_id = debts[payments[p].debt_id].debtor_id
          /\ payments[p].creditor_id = debts[payments[p].debt_id].creditor_id

\* C38: a payment is inserted only for a debt that is Open at that moment; a
\* debt closed or disputed after the payment session began gets no new payment.
C38_PaymentsForOpenDebtsOnly ==
    [][\A p \in DOMAIN payments' \ DOMAIN payments :
          /\ payments'[p].debt_id \in DOMAIN debts
          /\ debts[payments'[p].debt_id].status = "Open"]_vars

\* C39: with a cadence of one day every debt that is Open is due at every
\* firing of the reminder job: the stamp written while the firing of the day
\* before was processed does not keep it out of the list.
C39_OpenDebtsDueAtEveryFiring ==
    [][(batch.pc = "idle" /\ batch'.pc # "idle")
          => \A q \in DebtsForReminder :
                {d \in DOMAIN debts : debts[d].status = "Open"} \subseteq Range(q)]_vars

\* C40: once a save of the reminder settings has returned, the trigger of the
\* registered reminder job is the one built from the persisted
\* reminder_time and reminder_frequency.
C40_TriggerFollowsSettings ==
    Calm => \A j \in ReminderJobs(jobs) :
               j.trigger = CronTrigger(ParseTime(settings.reminder_time),
                                       ParseInt(settings.reminder_frequency))

====
